---------------------------- MODULE Spec2Model ----------------------------
(***************************************************************************)
(* A model of the ReactSway component (react-sway/src/ReactSway.tsx): the  *)
(* scroll-position state machine, its per-frame physics integration, the   *)
(* five input channels and the auto-scroll pause/resume scheduler.         *)
(*                                                                         *)
(* Numbers.  Lengths are fixed-point integers: one unit is 1/UnitsPerPx of *)
(* a pixel, fine enough to hold scrollHeight / LOOP_SEGMENTS, the 0.1      *)
(* velocity threshold, the 0.5 speed and the 0.3 wheel factor exactly.     *)
(* friction is held in hundredths; the product velocity * friction^dt is   *)
(* rounded toward zero to a whole unit (the code computes it in IEEE       *)
(* doubles).  deltaTime is a whole number of 16.667 ms frames.  Timer time *)
(* is in milliseconds and advances in steps of TickMs.                     *)
(***************************************************************************)
EXTENDS Integers, Sequences, FiniteSets

\* ------------------------------------------------------------ constants

LOOP_SEGMENTS == 3

UnitsPerPx == LOOP_SEGMENTS * 10

\* 0.95, in hundredths
DEFAULT_FRICTION == 95

DEFAULT_RESUME_DELAY == 2000

\* 0.5 px per frame
DEFAULT_SPEED == (5 * UnitsPerPx) \div 10

MAX_DELTA_TIME == 3

\* the literal 0.1 of animate
VelocityThreshold == (1 * UnitsPerPx) \div 10

\* the literal 15 of the arrow keys
ArrowImpulse == 15 * UnitsPerPx

\* the literal 0.5 of the setLoopPoint updater
LoopPointTolerance == (5 * UnitsPerPx) \div 10

\* ------------------------------------------------------------ bounds

\* scrollHeight values a measurement can read, 0..MaxHeight px
MaxHeight == 3

\* pointer and touch clientY values, 0..MaxClientY px
MaxClientY == 1

\* a touch event carries 0..MaxTouches contacts
MaxTouches == 2

\* impulses received while Suspended are counted up to
MaxCarried == 2

\* frames elapsed between two animation callbacks, 1..MaxElapsed
MaxElapsed == 4

\* |velocity| is kept within MaxVelocityPx px per frame
MaxVelocityPx == 15

\* while loopPoint is unmeasured |position| is kept within MaxPositionPx px
MaxPositionPx == 1

\* timer time advances by TickMs milliseconds per step
TickMs == 1000

\* raw positions given to a pure function, -MaxRawPosition..MaxRawPosition units
MaxRawPosition == 100

\* velocities given to the decay step, -MaxDecayVelocity..MaxDecayVelocity units
MaxDecayVelocity == 40

\* the largest magnitude a prop is configured with
MaxPropValue == 3000

\* a prop value that is a number, or a non-finite one (NaN, Infinity)
Num(n) == [finite |-> TRUE, val |-> n]

NonFinite == [finite |-> FALSE, val |-> 0]

\* ------------------------------------------------------------ arithmetic

Abs(x) == IF x < 0 THEN -x ELSE x

Min(a, b) == IF a < b THEN a ELSE b

Max(a, b) == IF a > b THEN a ELSE b

RECURSIVE Pow(_, _)
Pow(b, n) == IF n = 0 THEN 1 ELSE b * Pow(b, n - 1)

\* a / b rounded toward zero, b > 0
TruncDiv(a, b) == IF a >= 0 THEN a \div b ELSE -((-a) \div b)

\* the % of JavaScript: the remainder has the sign of the dividend, b > 0
JsRem(a, b) == IF a >= 0 THEN a % b ELSE -((-a) % b)


\* ------------------------------------------------------------ props

\* normalizedFriction without the clamp to [0, 1]
normalizedFriction_noClamp(p) ==
    IF p.finite THEN p.val ELSE DEFAULT_FRICTION

\* friction in hundredths, clamped to [0, 1]; the default when non-finite
normalizedFriction(p) ==
    IF p.finite THEN Min(Max(p.val, 0), 100) ELSE DEFAULT_FRICTION

\* normalizedResumeDelay without the clamp to >= 0
normalizedResumeDelay_noClamp(p) ==
    IF p.finite THEN p.val ELSE DEFAULT_RESUME_DELAY

\* resumeDelay in ms, clamped to >= 0; the default when non-finite
normalizedResumeDelay(p) ==
    IF p.finite THEN Max(0, p.val) ELSE DEFAULT_RESUME_DELAY

\* speed in units per frame, clamped to >= 0; the default when non-finite
normalizedSpeed(p) ==
    IF p.finite THEN Max(0, p.val) ELSE DEFAULT_SPEED

\* the direction signs exchanged
directionMultiplier_exchanged(d) == IF d = "down" THEN -1 ELSE 1

directionMultiplier(d) == IF d = "down" THEN 1 ELSE -1

\* ------------------------------------------------------------ geometry

\* renderPosition without the shift of a positive remainder
visualPosition_noShift(rawPosition, currentLoopPoint) ==
    JsRem(rawPosition,
          IF currentLoopPoint = 0 THEN 1 * UnitsPerPx ELSE currentLoopPoint)

\* renderPosition: the vertical translation published for rawPosition
visualPosition(rawPosition, currentLoopPoint) ==
    LET modulus == IF currentLoopPoint = 0 THEN 1 * UnitsPerPx
                   ELSE currentLoopPoint
        v == JsRem(rawPosition, modulus)
    IN  IF v > 0 /\ currentLoopPoint > 0 THEN v - currentLoopPoint ELSE v

\* the first loop of wrapPosition run at most once
wrapDown_once(p, l) == IF p > 0 THEN p - l ELSE p

\* first loop of wrapPosition: while (wrappedPosition > 0) -= loopPoint
RECURSIVE wrapDown(_, _)
wrapDown(p, l) == IF p > 0 THEN wrapDown(p - l, l) ELSE p

\* wrapPosition without its second loop
wrapUp_noLoop(p, l) == p

\* second loop of wrapPosition: while (wrappedPosition < -2 * loopPoint) += loopPoint
RECURSIVE wrapUp(_, _)
wrapUp(p, l) == IF p < -(l * 2) THEN wrapUp(p + l, l) ELSE p

wrapPosition(rawPosition, currentLoopPoint) ==
    IF currentLoopPoint <= 0 THEN rawPosition
    ELSE wrapUp(wrapDown(rawPosition, currentLoopPoint), currentLoopPoint)

\* ------------------------------------------------------------ physics

\* velocity damping as a flat multiply per frame, whatever the deltaTime
dampedVelocity_flat(v, f, dt) ==
    IF Abs(v) > VelocityThreshold
    THEN TruncDiv(v * f, 100)
    ELSE 0

\* animate without its damping step
dampedVelocity_noDecay(v, f, dt) == v

\* velocity damping of animate: v * friction^dt above the threshold, else 0
dampedVelocity(v, f, dt) ==
    IF Abs(v) > VelocityThreshold
    THEN TruncDiv(v * Pow(f, dt), Pow(100, dt))
    ELSE 0

\* deltaTime of animate: 1 on a reset baseline, else elapsed capped at 3
deltaTimeOf(baselineReset, elapsed) ==
    IF baselineReset THEN 1 ELSE Min(elapsed, MAX_DELTA_TIME)


\* ------------------------------------------------------------ state

VARIABLES
    scenario,               \* which family of inputs the environment draws from
    call,                   \* a call of a pure function: its arguments and result
    \* props of the last render
    autoScrollPropRef,      \* the autoScroll policy flag, as the sync effect stored it
    pauseOnInteraction,
    keyboard,
    draggable,
    wheelEnabled,
    direction,
    friction,
    resumeDelay,
    \* refs and React state of the instance
    positionRef,
    velocityRef,
    loopPointRef,
    loopPoint,              \* the loopPoint React state
    loopPointQueued,        \* result of the queued setLoopPoint updaters, NoUpdate if none
    transform,              \* the y of style.transform, in units
    autoScrollEnabledRef,   \* the live gate
    inactivityTimerRef,     \* id of the armed resume timer, 0 for null
    timers,                 \* the host's pending timeouts: [id, left]
    isPausedRef,
    isDraggingRef,
    lastMouseYRef,
    lastTouchYRef,
    dragPointer,            \* the pointer that started the drag and is still down
    isTabActive,
    animationFrameRef,      \* TRUE while the ref holds the id of a frame request
    pendingFrames,          \* the host's outstanding frame callbacks of the instance
    lastFrameTimeRef,       \* 0 (baseline reset) or 1 (a timestamp)
    mounted,
    \* observation of the run
    lastOp,                 \* the handler, callback or effect that ran last
    notified,               \* the notifications it delivered, in order
    cancelled,              \* ids of the pending timers it cancelled
    sinceInteraction,       \* ms since the most recent interaction event, capped
    beforePause,            \* the gate and timer as the Space press that paused found them
    enteredActive,          \* Active, and no frame has run since it last became so
    lastScrollValue,        \* the value of the most recent on-scroll, <<>> before the first
    measuredHeight,         \* the scrollHeight the step read, <<>> when it read none
    frameTiming,            \* <<elapsed, deltaTime>> of the frame the step ran, else <<>>
    lastEvent,              \* <<type, touches>> of the input event the step delivered, else <<>>
    dragOrigin,             \* <<position, clientY, channel>> of the drag start, while only moves and frames of that drag follow
    carriedImpulses         \* n: wheel and arrow impulses received while Suspended that no frame has seen, capped; -n: the most recent frame found them

\* what no handler writes
fixed == <<scenario, call, direction, friction, resumeDelay>>

\* the flags of the input channels
channels == <<keyboard, draggable, wheelEnabled>>

props == <<fixed, autoScrollPropRef, pauseOnInteraction, channels>>

geometry == <<loopPointRef, loopPoint, loopPointQueued>>

motion == <<positionRef, velocityRef, transform>>

scheduler == <<autoScrollEnabledRef, inactivityTimerRef, timers>>

drag == <<isDraggingRef, lastMouseYRef, lastTouchYRef, dragPointer>>

frameLoop == <<isTabActive, animationFrameRef, lastFrameTimeRef, pendingFrames>>

\* what is remembered of earlier steps, for the properties only
history == <<beforePause, lastScrollValue, enteredActive, dragOrigin,
             carriedImpulses>>

vars == <<props, geometry, motion, scheduler, isPausedRef, drag, frameLoop,
          mounted, lastOp, notified, cancelled, sinceInteraction, history,
          measuredHeight, frameTiming, lastEvent>>

NoUpdate == -1

\* no Space press has paused since the last other handler ran
NoPause == [set |-> FALSE, gate |-> FALSE, armed |-> FALSE]

NoCall == [fn |-> "none", args |-> <<>>, done |-> FALSE, result |-> 0]

\* The inputs of a run.  The scheduler (gate, timer, notifications) never
\* reads position, velocity or loopPoint, and the integrator reads of the
\* scheduler only the gate, so the runs are explored in families.
\* "scheduling" drives every scheduling event (all keys, wheel, drag starts
\* and ends, prop changes, timers) over one measured geometry;
\* "geometry" drives measurements of every height, jumps and frames;
\* "dragging" drives pointer and touch drags between the two ends of the
\* clientY range, with the ends of foreign pointers; "momentum"
\* drives the impulses and the frame pacing; "pacing" drives frames of every
\* pacing around pauses and visibility changes, under a zero and under a
\* non-finite resumeDelay.
\* "channels" drives the events of every input channel, touch events of every
\* number of contacts included, while the channel flags are switched off and
\* on, with no frame in between, under a resumeDelay of one tick.
\* "suspension" drives small wheel impulses and frames around
\* pauses and visibility changes, with autonomous scrolling configured off.
Scenarios == {"scheduling", "geometry", "dragging", "momentum", "pacing",
              "channels", "suspension"}

Heights ==
    IF scenario = "geometry" THEN 0..MaxHeight ELSE {LOOP_SEGMENTS}

ClientYs ==
    CASE scenario = "scheduling" -> {0}
      [] scenario = "geometry" -> {}
      [] scenario = "dragging" -> {0, MaxClientY}
      [] scenario = "momentum" -> {}
      [] scenario = "pacing" -> {}
      [] scenario = "channels" -> {0, MaxClientY}
      [] scenario = "suspension" -> {}

\* clientY values of touch events
TouchYs == IF scenario = "channels" THEN {0} ELSE ClientYs

Elapsed ==
    CASE scenario \in {"momentum", "pacing"} -> 1..MaxElapsed
      [] scenario = "channels" -> {}
      [] OTHER -> {1}

WheelDeltas ==
    CASE scenario = "scheduling" -> {50}
      [] scenario = "geometry" -> {}
      [] scenario = "dragging" -> {}
      [] scenario = "momentum" -> {-50, 50}
      [] scenario = "pacing" -> {}
      [] scenario = "channels" -> {50}
      [] scenario = "suspension" -> {25}

Keys ==
    CASE scenario = "scheduling" -> {" ", "ArrowDown", "ArrowUp", "End", "Home"}
      [] scenario = "geometry" -> {"End", "Home"}
      [] scenario = "dragging" -> {}
      [] scenario = "momentum" -> {"ArrowDown", "ArrowUp"}
      [] scenario = "pacing" -> {" ", "Home"}
      [] scenario = "channels" -> {"Home"}
      [] scenario = "suspension" -> {" "}

\* the number of contacts a touch event carries
TouchCounts == IF scenario = "channels" THEN 0..MaxTouches ELSE {1}

\* the channel flags a re-render may switch
ChannelChanges ==
    IF scenario = "channels" THEN {"keyboard", "draggable", "wheelEnabled"}
    ELSE {}

\* values a re-render may give the autoScroll and pauseOnInteraction props
\* whether the run has mouseup and touchend events of a pointer other than
\* the one that started the drag (a second finger, a button pressed elsewhere)
ForeignPointerEnds == scenario = "dragging"

PropChanges == IF scenario = "scheduling" THEN BOOLEAN ELSE {}

Visibility ==
    IF scenario \in {"pacing", "suspension"} THEN BOOLEAN ELSE {}

InitProps ==
    /\ scenario \in Scenarios
    /\ CASE scenario = "scheduling" ->
              /\ autoScrollPropRef \in BOOLEAN
              /\ pauseOnInteraction \in BOOLEAN
              /\ direction = "up"
              /\ friction = Num(0)
              /\ resumeDelay \in {Num(-1000), Num(1000)}
         [] scenario = "geometry" ->
              /\ autoScrollPropRef = TRUE
              /\ pauseOnInteraction = FALSE
              /\ direction \in {"up", "down"}
              /\ friction = Num(10)
              /\ resumeDelay = Num(0)
         [] scenario = "dragging" ->
              /\ autoScrollPropRef = TRUE
              /\ pauseOnInteraction = TRUE
              /\ direction = "up"
              /\ friction = Num(10)
              /\ resumeDelay = Num(0)
         [] scenario = "momentum" ->
              /\ autoScrollPropRef \in BOOLEAN
              /\ pauseOnInteraction = TRUE
              /\ direction = "up"
              /\ friction = Num(10)
              /\ resumeDelay = Num(0)
         [] scenario = "pacing" ->
              /\ autoScrollPropRef = TRUE
              /\ pauseOnInteraction = TRUE
              /\ direction \in {"up", "down"}
              /\ friction = Num(10)
              /\ resumeDelay \in {Num(0), NonFinite}
         [] scenario = "channels" ->
              /\ autoScrollPropRef = TRUE
              /\ pauseOnInteraction = TRUE
              /\ direction = "up"
              /\ friction = Num(0)
              /\ resumeDelay = Num(1000)
         [] scenario = "suspension" ->
              /\ autoScrollPropRef = FALSE
              /\ pauseOnInteraction = FALSE
              /\ direction = "up"
              /\ friction = Num(10)
              /\ resumeDelay = Num(0)
    /\ keyboard = TRUE
    /\ draggable = TRUE
    /\ wheelEnabled = TRUE

\* the longest quiet period a run has to tell apart
SinceCap == normalizedResumeDelay(resumeDelay)

InitInstance ==
    /\ positionRef = 0
    /\ velocityRef = 0
    /\ loopPointRef = 0
    /\ loopPoint = 0
    /\ loopPointQueued = NoUpdate
    /\ transform = 0
    /\ autoScrollEnabledRef = TRUE
    /\ inactivityTimerRef = 0
    /\ timers = {}
    /\ isPausedRef = FALSE
    /\ isDraggingRef = FALSE
    /\ lastMouseYRef = 0
    /\ lastTouchYRef = 0
    /\ dragPointer = "none"
    /\ isTabActive = TRUE
    /\ animationFrameRef = TRUE
    /\ pendingFrames = 1
    /\ lastFrameTimeRef = 0
    /\ mounted = TRUE
    /\ lastOp = "mount"
    /\ notified = <<>>
    /\ cancelled = {}
    /\ sinceInteraction = SinceCap
    /\ beforePause = NoPause
    /\ enteredActive = TRUE
    /\ lastScrollValue = <<>>
    /\ measuredHeight = <<>>
    /\ frameTiming = <<>>
    /\ lastEvent = <<>>
    /\ dragOrigin = <<>>
    /\ carriedImpulses = 0

Init ==
    /\ InitProps
    /\ call = NoCall
    /\ InitInstance

\* ------------------------------------------------------------ scheduler

\* The part of the state the pause/resume helpers work on, threaded through
\* one handler: the live gate, the timer ref, the host's timers and the
\* notifications delivered so far.
Sched == [gate |-> autoScrollEnabledRef, ref |-> inactivityTimerRef,
          timers |-> timers, notes |-> <<>>, scrolled |-> <<>>,
          measured |-> <<>>, timing |-> <<>>, touches |-> 1,
          anchor |-> <<>>]

TimerIds(ts) == {t.id : t \in ts}

\* setTimeout returns an id no earlier timeout of this handler's run carries
NewTimerId(ts) ==
    CHOOSE n \in 1..(Cardinality(TimerIds(ts) \cup TimerIds(timers)) + 1) :
        /\ n \notin TimerIds(ts) \cup TimerIds(timers)
        /\ \A m \in 1..(n - 1) : m \in TimerIds(ts) \cup TimerIds(timers)

\* the runs in which carriedImpulses is kept
CountsCarried == scenario = "suspension"

\* the handlers that add an impulse to the velocity
ImpulseOps == {"wheel", "ArrowUp", "ArrowDown"}

\* the handlers that overwrite the velocity
VelocitySetOps == {"Home", "End", "mousedown", "mousemove", "touchstart",
                   "touchmove"}

\* the step belongs to the drag that dragOrigin describes: a move or the end
\* of the channel that started it, or a frame while it runs
OwnDragStep(op) ==
    /\ dragOrigin # <<>>
    /\ \/ op = "frame" /\ isDraggingRef
       \/ op \in {"mousemove", "mouseup"} /\ dragOrigin[3] = "mouse"
       \/ op \in {"touchmove", "touchend"} /\ dragOrigin[3] = "touch"

clearInactivityTimer(s) ==
    IF s.ref = 0 THEN s
    ELSE [s EXCEPT !.timers = {t \in @ : t.id # s.ref}, !.ref = 0]

\* pauseAutoScroll without the clearInactivityTimer call
pauseAutoScroll_keepsTimer(s) ==
    IF ~pauseOnInteraction THEN s
    ELSE [s EXCEPT !.gate = FALSE, !.notes = Append(@, "pause")]

\* pauseAutoScroll without the switch of the live gate
pauseAutoScroll_keepsGate(s) ==
    IF ~pauseOnInteraction THEN s
    ELSE clearInactivityTimer([s EXCEPT !.notes = Append(@, "pause")])

pauseAutoScroll(s) ==
    IF ~pauseOnInteraction THEN s
    ELSE clearInactivityTimer(
             [s EXCEPT !.gate = FALSE, !.notes = Append(@, "pause")])

\* scheduleAutoScrollResume without the setTimeout call
scheduleAutoScrollResume_noArm(s) ==
    IF ~pauseOnInteraction \/ ~autoScrollPropRef \/ isPausedRef THEN s
    ELSE clearInactivityTimer(s)

\* scheduleAutoScrollResume without the clearInactivityTimer call
scheduleAutoScrollResume_noClear(s) ==
    IF ~pauseOnInteraction \/ ~autoScrollPropRef \/ isPausedRef THEN s
    ELSE LET id == NewTimerId(s.timers)
         IN  [s EXCEPT !.timers = @ \cup {[id |-> id,
                                          left |-> normalizedResumeDelay(resumeDelay)]},
                       !.ref = id]

\* scheduleAutoScrollResume without the pauseOnInteraction check
scheduleAutoScrollResume_ignoresPauseOnInteraction(s) ==
    IF ~autoScrollPropRef \/ isPausedRef THEN s
    ELSE LET c == clearInactivityTimer(s)
             id == NewTimerId(c.timers)
         IN  [c EXCEPT !.timers = @ \cup {[id |-> id,
                                          left |-> normalizedResumeDelay(resumeDelay)]},
                       !.ref = id]

scheduleAutoScrollResume(s) ==
    IF ~pauseOnInteraction \/ ~autoScrollPropRef \/ isPausedRef THEN s
    ELSE LET c == clearInactivityTimer(s)
             id == NewTimerId(c.timers)
         IN  [c EXCEPT !.timers = @ \cup {[id |-> id,
                                          left |-> normalizedResumeDelay(resumeDelay)]},
                       !.ref = id]

\* commitPosition without the early return on an equal position
commitPosition_always(nextPosition, notes) ==
    [position |-> nextPosition,
     transform |-> visualPosition(nextPosition, loopPointRef),
     notes |-> Append(notes, "scroll"),
     scrolled |-> <<nextPosition>>]

\* commitPosition: the position, transform and notifications after committing
\* nextPosition on top of the notifications `notes`, and the value on-scroll
\* was called with
commitPosition(nextPosition, notes) ==
    IF positionRef = nextPosition
    THEN [position |-> positionRef, transform |-> transform, notes |-> notes,
          scrolled |-> <<>>]
    ELSE [position |-> nextPosition,
          transform |-> visualPosition(nextPosition, loopPointRef),
          notes |-> Append(notes, "scroll"),
          scrolled |-> <<nextPosition>>]

\* the scheduler record of a handler that has committed `c`
SchedWith(c) == [Sched EXCEPT !.notes = c.notes, !.scrolled = c.scrolled]

\* tab hidden or explicitly paused
Suspended == ~isTabActive \/ isPausedRef

\* Suspended after the handler `op`: Space flips the explicit pause, a
\* visibility change flips the tab's visibility
SuspendedAfter(op) ==
    CASE op = " " -> ~isTabActive \/ ~isPausedRef
      [] op = "visibilitychange" -> isTabActive \/ isPausedRef
      [] OTHER -> Suspended

\* the type of the input event that runs the handler `op`
EventType(op) ==
    CASE op \in {" ", "ArrowDown", "ArrowUp", "End", "Home"} -> "keydown"
      [] op \in {"mousedown", "mousemove", "mouseup", "touchstart",
                 "touchmove", "touchend", "wheel"} -> op
      [] OTHER -> "none"

\* Ends a handler: writes the scheduler record `result` back and records
\* what ran.
Finish(op, result, interaction) ==
    \E s \in {result} :
        /\ autoScrollEnabledRef' = s.gate
        /\ inactivityTimerRef' = s.ref
        /\ timers' = s.timers
        /\ lastOp' = op
        /\ notified' = s.notes
        /\ cancelled' = TimerIds(timers) \ TimerIds(s.timers)
        /\ sinceInteraction' = IF interaction THEN 0 ELSE sinceInteraction
        /\ beforePause' =
               IF op # " " THEN NoPause
               ELSE IF ~isPausedRef
                    THEN [set |-> TRUE, gate |-> autoScrollEnabledRef,
                          armed |-> timers # {}]
                    ELSE beforePause
        /\ lastScrollValue' = IF s.scrolled = <<>> THEN lastScrollValue
                              ELSE s.scrolled
        /\ enteredActive' = IF op = "frame" \/ SuspendedAfter(op) THEN FALSE
                            ELSE IF Suspended THEN TRUE
                            ELSE enteredActive
        /\ measuredHeight' = s.measured
        /\ frameTiming' = s.timing
        /\ lastEvent' = IF EventType(op) = "none" THEN <<>>
                        ELSE <<EventType(op),
                               IF EventType(op) \in {"touchstart", "touchmove"}
                               THEN s.touches ELSE 0>>
        /\ dragOrigin' =
               CASE op \in {"mousedown", "touchstart"} ->
                        <<positionRef, s.anchor[1],
                          IF op = "mousedown" THEN "mouse" ELSE "touch">>
                 [] OwnDragStep(op) -> dragOrigin
                 [] OTHER -> <<>>
        /\ carriedImpulses' =
               CASE ~CountsCarried -> 0
                 [] op \in ImpulseOps /\ Suspended ->
                        Min(Max(carriedImpulses, 0) + 1, MaxCarried)
                 [] op = "frame" -> -Max(carriedImpulses, 0)
                 [] op \in VelocitySetOps -> 0
                 [] OTHER -> Max(carriedImpulses, 0)

InVelocityBound(v) == Abs(v) <= MaxVelocityPx * UnitsPerPx

\* a position is bounded by wrapping once loopPoint is measured
InPositionBound(p) == loopPointRef > 0 \/ Abs(p) <= MaxPositionPx * UnitsPerPx


\* ------------------------------------------------------------ geometry actions

\* recalculateLoopPoint without the return on scrollHeight <= 0
RecalculateLoopPoint_acceptsZero(currentContentHeight) ==
    /\ mounted
    /\ LET nextLoopPoint == (currentContentHeight * UnitsPerPx) \div LOOP_SEGMENTS
           previousLoopPoint == IF loopPointQueued = NoUpdate THEN loopPoint
                                ELSE loopPointQueued
       IN  /\ loopPointRef' = nextLoopPoint
           /\ loopPointQueued' =
                  IF Abs(previousLoopPoint - nextLoopPoint) < LoopPointTolerance
                  THEN previousLoopPoint ELSE nextLoopPoint
           /\ transform' = visualPosition(positionRef, nextLoopPoint)
    /\ UNCHANGED <<props, loopPoint, positionRef, velocityRef, isPausedRef,
                   drag, frameLoop, mounted>>
    /\ Finish("measure", [Sched EXCEPT !.measured = <<currentContentHeight>>],
              FALSE)

\* recalculateLoopPoint, run by the dimension effect's frame callback, the
\* window resize listener and the ResizeObserver
RecalculateLoopPoint(currentContentHeight) ==
    /\ mounted
    /\ IF currentContentHeight <= 0
       THEN UNCHANGED <<geometry, transform>>
       ELSE LET nextLoopPoint ==
                    (currentContentHeight * UnitsPerPx) \div LOOP_SEGMENTS
                previousLoopPoint == IF loopPointQueued = NoUpdate THEN loopPoint
                                     ELSE loopPointQueued
            IN  /\ loopPointRef' = nextLoopPoint
                /\ loopPointQueued' =
                       IF Abs(previousLoopPoint - nextLoopPoint) < LoopPointTolerance
                       THEN previousLoopPoint ELSE nextLoopPoint
                /\ transform' = visualPosition(positionRef, nextLoopPoint)
    /\ UNCHANGED <<props, loopPoint, positionRef, velocityRef, isPausedRef,
                   drag, frameLoop, mounted>>
    /\ Finish("measure", [Sched EXCEPT !.measured = <<currentContentHeight>>],
              FALSE)

\* React applies the queued setLoopPoint; when the state changed, the
\* loopPoint sync effect runs
LoopPointSync ==
    /\ mounted
    /\ loopPointQueued # NoUpdate
    /\ loopPointQueued' = NoUpdate
    /\ loopPoint' = loopPointQueued
    /\ IF loopPointQueued # loopPoint
       THEN /\ loopPointRef' = loopPointQueued
            /\ transform' = visualPosition(positionRef, loopPointQueued)
       ELSE UNCHANGED <<loopPointRef, transform>>
    /\ UNCHANGED <<props, positionRef, velocityRef, isPausedRef, drag,
                   frameLoop, mounted>>
    /\ Finish("loopPointSync", Sched, FALSE)

\* ------------------------------------------------------------ prop changes

\* the autoScroll sync effect without the clearInactivityTimer call
SetAutoScroll_noClear(autoScroll) ==
    /\ mounted
    /\ autoScroll # autoScrollPropRef
    /\ autoScrollPropRef' = autoScroll
    /\ UNCHANGED <<fixed, pauseOnInteraction, channels,
                   geometry, motion, isPausedRef, drag, frameLoop, mounted>>
    /\ Finish("setAutoScroll",
              IF ~autoScroll THEN [Sched EXCEPT !.gate = TRUE] ELSE Sched,
              FALSE)

\* a re-render with a new autoScroll prop, and the autoScroll sync effect
SetAutoScroll(autoScroll) ==
    /\ mounted
    /\ autoScroll # autoScrollPropRef
    /\ autoScrollPropRef' = autoScroll
    /\ UNCHANGED <<fixed, pauseOnInteraction, channels,
                   geometry, motion, isPausedRef, drag, frameLoop, mounted>>
    /\ Finish("setAutoScroll",
              IF ~autoScroll
              THEN [clearInactivityTimer(Sched) EXCEPT !.gate = TRUE]
              ELSE Sched,
              FALSE)

\* a re-render with a new pauseOnInteraction prop
SetPauseOnInteraction(value) ==
    /\ mounted
    /\ value # pauseOnInteraction
    /\ pauseOnInteraction' = value
    /\ UNCHANGED <<fixed, autoScrollPropRef, channels,
                   geometry, motion, isPausedRef, drag, frameLoop, mounted>>
    /\ Finish("setPauseOnInteraction", Sched, FALSE)


\* ------------------------------------------------------------ frame loop

\* cancelAnimationFrame(animationFrameRef.current) under its null check: the
\* callbacks left outstanding
cancelFrame == IF animationFrameRef /\ pendingFrames > 0 THEN pendingFrames - 1
               ELSE pendingFrames

\* the animation-loop effect requesting a callback without the cleanup of
\* the run before having cancelled the outstanding one
AnimationEffect_noCancel(tabActive, paused) ==
    IF ~tabActive \/ paused
    THEN /\ animationFrameRef' = FALSE
         /\ pendingFrames' = pendingFrames
         /\ UNCHANGED lastFrameTimeRef
    ELSE /\ animationFrameRef' = TRUE
         /\ pendingFrames' = pendingFrames + 1
         /\ lastFrameTimeRef' = 0

\* the animation-loop effect without the reset of the frame-delta baseline
AnimationEffect_noReset(tabActive, paused) ==
    IF ~tabActive \/ paused
    THEN /\ animationFrameRef' = FALSE
         /\ pendingFrames' = cancelFrame
         /\ UNCHANGED lastFrameTimeRef
    ELSE /\ animationFrameRef' = TRUE
         /\ pendingFrames' = cancelFrame + 1
         /\ UNCHANGED lastFrameTimeRef

\* The animation-loop effect re-run for the given isTabActive and isPaused:
\* the cleanup of the run before cancels the outstanding callback; while
\* suspended the ref is cleared, otherwise the baseline is reset and a
\* callback requested.
AnimationEffect(tabActive, paused) ==
    IF ~tabActive \/ paused
    THEN /\ animationFrameRef' = FALSE
         /\ pendingFrames' = cancelFrame
         /\ UNCHANGED lastFrameTimeRef
    ELSE /\ animationFrameRef' = TRUE
         /\ pendingFrames' = cancelFrame + 1
         /\ lastFrameTimeRef' = 0

\* ------------------------------------------------------------ keyboard

\* togglePause notifying on-resume without reading the autoScroll policy
KeySpace_alwaysResume ==
    /\ mounted
    /\ " " \in Keys
    /\ LET newPaused == ~isPausedRef
           c == clearInactivityTimer(Sched)
       IN  /\ isPausedRef' = newPaused
           /\ AnimationEffect(isTabActive, newPaused)
           /\ Finish(" ",
                     IF newPaused
                     THEN [c EXCEPT !.gate = FALSE, !.notes = <<"pause">>]
                     ELSE [c EXCEPT !.gate = TRUE, !.notes = <<"resume">>],
                     TRUE)
    /\ UNCHANGED <<props, geometry, motion, drag, isTabActive, mounted>>

\* togglePause leaving the live gate as the pause left it when unpausing
KeySpace_keepsGate ==
    /\ mounted
    /\ " " \in Keys
    /\ LET newPaused == ~isPausedRef
           c == clearInactivityTimer(Sched)
       IN  /\ isPausedRef' = newPaused
           /\ AnimationEffect(isTabActive, newPaused)
           /\ Finish(" ",
                     IF newPaused
                     THEN [c EXCEPT !.gate = FALSE, !.notes = <<"pause">>]
                     ELSE [c EXCEPT !.notes = IF autoScrollPropRef
                                              THEN <<"resume">> ELSE <<>>],
                     TRUE)
    /\ UNCHANGED <<props, geometry, motion, drag, isTabActive, mounted>>

\* togglePause pausing through pauseAutoScroll, which reads pauseOnInteraction
KeySpace_readsPauseOnInteraction ==
    /\ mounted
    /\ " " \in Keys
    /\ LET newPaused == ~isPausedRef
           c == clearInactivityTimer(Sched)
       IN  /\ isPausedRef' = newPaused
           /\ AnimationEffect(isTabActive, newPaused)
           /\ Finish(" ",
                     IF newPaused
                     THEN pauseAutoScroll(c)
                     ELSE [c EXCEPT !.gate = TRUE,
                                    !.notes = IF autoScrollPropRef
                                              THEN <<"resume">> ELSE <<>>],
                     TRUE)
    /\ UNCHANGED <<props, geometry, motion, drag, isTabActive, mounted>>

\* togglePause, then the re-render that re-runs the animation-loop effect
KeySpace ==
    /\ mounted
    /\ keyboard
    /\ " " \in Keys
    /\ LET newPaused == ~isPausedRef
           c == clearInactivityTimer(Sched)
       IN  /\ isPausedRef' = newPaused
           /\ AnimationEffect(isTabActive, newPaused)
           /\ Finish(" ",
                     IF newPaused
                     THEN [c EXCEPT !.gate = FALSE, !.notes = <<"pause">>]
                     ELSE [c EXCEPT !.gate = TRUE,
                                    !.notes = IF autoScrollPropRef
                                              THEN <<"resume">> ELSE <<>>],
                     TRUE)
    /\ UNCHANGED <<props, geometry, motion, drag, isTabActive, mounted>>

\* handleKeyDown, ArrowDown (sign = -1) and ArrowUp (sign = +1)
KeyArrow(key) ==
    /\ mounted
    /\ keyboard
    /\ key \in {"ArrowDown", "ArrowUp"}
    /\ LET v == IF key = "ArrowDown" THEN velocityRef - ArrowImpulse
                ELSE velocityRef + ArrowImpulse
       IN  /\ InVelocityBound(v)
           /\ velocityRef' = v
    /\ UNCHANGED <<props, geometry, positionRef, transform, isPausedRef, drag,
                   frameLoop, mounted>>
    /\ Finish(key, scheduleAutoScrollResume(pauseAutoScroll(Sched)), TRUE)

\* handleKeyDown, End and Home, without velocityRef.current = 0
KeyJump_keepsVelocity(key) ==
    /\ mounted
    /\ key \in {"End", "Home"}
    /\ LET c == IF key = "Home" THEN commitPosition(0, <<>>)
                ELSE IF loopPointRef > 0 THEN commitPosition(-loopPointRef, <<>>)
                ELSE commitPosition(positionRef, <<>>)
       IN  /\ positionRef' = c.position
           /\ transform' = c.transform
           /\ Finish(key,
                     scheduleAutoScrollResume(pauseAutoScroll(SchedWith(c))),
                     TRUE)
    /\ UNCHANGED <<props, geometry, velocityRef, isPausedRef, drag, frameLoop,
                   mounted>>

\* handleKeyDown, End without the loopPointRef.current > 0 check
KeyJump_endUnguarded(key) ==
    /\ mounted
    /\ key \in {"End", "Home"}
    /\ LET c == IF key = "Home" THEN commitPosition(0, <<>>)
                ELSE commitPosition(-loopPointRef, <<>>)
       IN  /\ positionRef' = c.position
           /\ transform' = c.transform
           /\ velocityRef' = 0
           /\ Finish(key,
                     scheduleAutoScrollResume(pauseAutoScroll(SchedWith(c))),
                     TRUE)
    /\ UNCHANGED <<props, geometry, isPausedRef, drag, frameLoop, mounted>>

\* handleKeyDown, End and Home
KeyJump(key) ==
    /\ mounted
    /\ keyboard
    /\ key \in {"End", "Home"}
    /\ LET c == IF key = "Home" THEN commitPosition(0, <<>>)
                ELSE IF loopPointRef > 0 THEN commitPosition(-loopPointRef, <<>>)
                ELSE commitPosition(positionRef, <<>>)
       IN  /\ positionRef' = c.position
           /\ transform' = c.transform
           /\ velocityRef' = 0
           /\ Finish(key,
                     scheduleAutoScrollResume(pauseAutoScroll(SchedWith(c))),
                     TRUE)
    /\ UNCHANGED <<props, geometry, isPausedRef, drag, frameLoop, mounted>>

\* ------------------------------------------------------------ drag and wheel

handleMouseDown(clientY) ==
    /\ mounted
    /\ draggable
    /\ isDraggingRef' = TRUE
    /\ lastMouseYRef' = clientY
    /\ dragPointer' = "mouse"
    /\ velocityRef' = 0
    /\ UNCHANGED <<props, geometry, positionRef, transform, isPausedRef,
                   lastTouchYRef, frameLoop, mounted>>
    /\ Finish("mousedown",
              pauseAutoScroll([Sched EXCEPT !.anchor = <<clientY>>]), TRUE)

\* handleMouseMove without the update of the anchor
handleMouseMove_keepsAnchor(clientY) ==
    /\ mounted
    /\ isDraggingRef
    /\ LET deltaY == (clientY - lastMouseYRef) * UnitsPerPx
           c == commitPosition(wrapPosition(positionRef + deltaY, loopPointRef),
                               <<>>)
       IN  /\ InPositionBound(c.position)
           /\ positionRef' = c.position
           /\ transform' = c.transform
           /\ velocityRef' = deltaY
           /\ lastMouseYRef' = lastMouseYRef
           /\ Finish("mousemove", SchedWith(c), TRUE)
    /\ UNCHANGED <<props, geometry, isPausedRef, isDraggingRef, lastTouchYRef,
                   dragPointer, frameLoop, mounted>>

handleMouseMove(clientY) ==
    /\ mounted
    /\ isDraggingRef
    /\ LET deltaY == (clientY - lastMouseYRef) * UnitsPerPx
           c == commitPosition(wrapPosition(positionRef + deltaY, loopPointRef),
                               <<>>)
       IN  /\ InPositionBound(c.position)
           /\ positionRef' = c.position
           /\ transform' = c.transform
           /\ velocityRef' = deltaY
           /\ lastMouseYRef' = clientY
           /\ Finish("mousemove", SchedWith(c), TRUE)
    /\ UNCHANGED <<props, geometry, isPausedRef, isDraggingRef, lastTouchYRef,
                   dragPointer, frameLoop, mounted>>

\* the mouseup of any press reaches the window listener
handleMouseUp ==
    /\ mounted
    /\ isDraggingRef
    /\ isDraggingRef' = FALSE
    /\ dragPointer = "mouse" \/ ForeignPointerEnds
    /\ dragPointer' = IF dragPointer = "mouse" THEN "none" ELSE dragPointer
    /\ UNCHANGED <<props, geometry, motion, isPausedRef, lastMouseYRef,
                   lastTouchYRef, frameLoop, mounted>>
    /\ Finish("mouseup", scheduleAutoScrollResume(Sched), TRUE)

\* handleTouchStart without the check of e.touches.length
handleTouchStart_anyTouches(clientY, touches) ==
    /\ mounted
    /\ draggable
    /\ isDraggingRef' = TRUE
    /\ lastTouchYRef' = clientY
    /\ dragPointer' = "touch"
    /\ velocityRef' = 0
    /\ UNCHANGED <<props, geometry, positionRef, transform, isPausedRef,
                   lastMouseYRef, frameLoop, mounted>>
    /\ Finish("touchstart",
              pauseAutoScroll([Sched EXCEPT !.touches = touches,
                                            !.anchor = <<clientY>>]), TRUE)

\* handleTouchStart, past its check: draggable and exactly one touch, whose
\* clientY becomes the anchor
handleTouchStart(clientY, touches) ==
    /\ mounted
    /\ draggable
    /\ touches = 1
    /\ isDraggingRef' = TRUE
    /\ lastTouchYRef' = clientY
    /\ dragPointer' = "touch"
    /\ velocityRef' = 0
    /\ UNCHANGED <<props, geometry, positionRef, transform, isPausedRef,
                   lastMouseYRef, frameLoop, mounted>>
    /\ Finish("touchstart",
              pauseAutoScroll([Sched EXCEPT !.touches = touches,
                                            !.anchor = <<clientY>>]), TRUE)

\* handleTouchMove, past its check: a drag runs and the event carries
\* exactly one touch
handleTouchMove(clientY, touches) ==
    /\ mounted
    /\ isDraggingRef
    /\ touches = 1
    /\ LET deltaY == (clientY - lastTouchYRef) * UnitsPerPx
           c == commitPosition(wrapPosition(positionRef + deltaY, loopPointRef),
                               <<>>)
       IN  /\ InPositionBound(c.position)
           /\ positionRef' = c.position
           /\ transform' = c.transform
           /\ velocityRef' = deltaY
           /\ lastTouchYRef' = clientY
           /\ Finish("touchmove",
                     [SchedWith(c) EXCEPT !.touches = touches], TRUE)
    /\ UNCHANGED <<props, geometry, isPausedRef, isDraggingRef, lastMouseYRef,
                   dragPointer, frameLoop, mounted>>

\* the touchend of any finger reaches the window listener: `own` tells
\* whether the finger lifted is the one that started the drag
handleTouchEnd(own) ==
    /\ mounted
    /\ isDraggingRef
    /\ own => dragPointer = "touch"
    /\ own \/ ForeignPointerEnds
    /\ isDraggingRef' = FALSE
    /\ dragPointer' = IF own THEN "none" ELSE dragPointer
    /\ UNCHANGED <<props, geometry, motion, isPausedRef, lastMouseYRef,
                   lastTouchYRef, frameLoop, mounted>>
    /\ Finish("touchend", scheduleAutoScrollResume(Sched), TRUE)

\* handleWheel adding e.deltaY unscaled instead of subtracting e.deltaY * 0.3
wheelImpulse_unscaled(deltaY) == -(deltaY * UnitsPerPx)

\* e.deltaY * 0.3, in units
wheelImpulse(deltaY) == (deltaY * 3 * UnitsPerPx) \div 10

\* handleWheel leaving the velocity alone while Suspended
handleWheel_idleWhileSuspended(deltaY) ==
    /\ mounted
    /\ wheelEnabled
    /\ LET v == IF Suspended THEN velocityRef
                ELSE velocityRef - wheelImpulse(deltaY)
       IN  /\ InVelocityBound(v)
           /\ velocityRef' = v
    /\ UNCHANGED <<props, geometry, positionRef, transform, isPausedRef, drag,
                   frameLoop, mounted>>
    /\ Finish("wheel", scheduleAutoScrollResume(pauseAutoScroll(Sched)), TRUE)

handleWheel(deltaY) ==
    /\ mounted
    /\ wheelEnabled
    /\ LET v == velocityRef - wheelImpulse(deltaY)
       IN  /\ InVelocityBound(v)
           /\ velocityRef' = v
    /\ UNCHANGED <<props, geometry, positionRef, transform, isPausedRef, drag,
                   frameLoop, mounted>>
    /\ Finish("wheel", scheduleAutoScrollResume(pauseAutoScroll(Sched)), TRUE)

\* An input event whose handler returns at its first check: a key with
\* keyboard off, a mousedown with draggable off, a touchstart with draggable
\* off or not exactly one touch, a touchmove during a drag with not exactly
\* one touch, a wheel event with wheelEnabled off.
handlerReturns(type, touches) ==
    /\ mounted
    /\ CASE type = "keydown" -> Keys # {} /\ ~keyboard
         [] type = "mousedown" -> ClientYs # {} /\ ~draggable
         [] type = "touchstart" -> ClientYs # {} /\ (~draggable \/ touches # 1)
         [] type = "touchmove" -> ClientYs # {} /\ isDraggingRef /\ touches # 1
         [] type = "wheel" -> WheelDeltas # {} /\ ~wheelEnabled
    /\ lastOp' = "returned"
    /\ lastEvent' = <<type, IF type \in {"touchstart", "touchmove"}
                            THEN touches ELSE 0>>
    /\ notified' = <<>>
    /\ cancelled' = {}
    /\ measuredHeight' = <<>>
    /\ frameTiming' = <<>>
    /\ UNCHANGED <<props, geometry, motion, scheduler, isPausedRef, drag,
                   frameLoop, mounted, sinceInteraction, history>>

\* a re-render with the flag of one input channel switched; the runs have
\* one channel off at a time
SetChannel(flag) ==
    /\ mounted
    /\ (keyboard /\ draggable /\ wheelEnabled)
           \/ (flag = "keyboard" /\ ~keyboard)
           \/ (flag = "draggable" /\ ~draggable)
           \/ (flag = "wheelEnabled" /\ ~wheelEnabled)
    /\ keyboard' = IF flag = "keyboard" THEN ~keyboard ELSE keyboard
    /\ draggable' = IF flag = "draggable" THEN ~draggable ELSE draggable
    /\ wheelEnabled' = IF flag = "wheelEnabled" THEN ~wheelEnabled
                       ELSE wheelEnabled
    /\ UNCHANGED <<fixed, autoScrollPropRef, pauseOnInteraction,
                   geometry, motion, isPausedRef, drag, frameLoop, mounted>>
    /\ Finish("setChannel", Sched, FALSE)

\* ------------------------------------------------------------ visibility

\* handleVisibilityChange, then the re-render that re-runs the animation effect
handleVisibilityChange(hidden) ==
    /\ mounted
    /\ hidden = isTabActive
    /\ isTabActive' = ~hidden
    /\ IF ~hidden /\ isPausedRef
       THEN /\ lastFrameTimeRef' = 1
            /\ animationFrameRef' = FALSE
            /\ pendingFrames' = cancelFrame
       ELSE AnimationEffect(~hidden, isPausedRef)
    /\ UNCHANGED <<props, geometry, motion, isPausedRef, drag, mounted>>
    /\ Finish("visibilitychange", Sched, FALSE)


\* ------------------------------------------------------------ integrator

\* the candidate position of one frame with the autonomous term applied also
\* while dragging
candidatePosition_autoWhileDragging(p, v, dt) ==
    LET auto == IF autoScrollPropRef /\ autoScrollEnabledRef
                THEN directionMultiplier(direction) * DEFAULT_SPEED * dt
                ELSE 0
        momentum == IF ~isDraggingRef /\ Abs(v) > VelocityThreshold
                    THEN v * dt ELSE 0
    IN  p + auto + momentum

\* the candidate position of one frame with the momentum term taken from the
\* velocity as it was before this frame's decay
candidatePosition_staleVelocity(p, v, dt) ==
    LET auto == IF autoScrollPropRef /\ autoScrollEnabledRef /\ ~isDraggingRef
                THEN directionMultiplier(direction) * DEFAULT_SPEED * dt
                ELSE 0
        momentum == IF ~isDraggingRef /\ Abs(velocityRef) > VelocityThreshold
                    THEN velocityRef * dt ELSE 0
    IN  p + auto + momentum

\* the candidate position of one frame, before wrapping: the autonomous term
\* and the momentum term added to the current position
candidatePosition(p, v, dt) ==
    LET auto == IF autoScrollPropRef /\ autoScrollEnabledRef /\ ~isDraggingRef
                THEN directionMultiplier(direction) * DEFAULT_SPEED * dt
                ELSE 0
        momentum == IF ~isDraggingRef /\ Abs(v) > VelocityThreshold
                    THEN v * dt ELSE 0
    IN  p + auto + momentum

\* animate: one frame callback, `elapsed` frames after the previous one
animate(elapsed) ==
    /\ pendingFrames > 0
    /\ LET deltaTime == deltaTimeOf(lastFrameTimeRef = 0, elapsed)
           v == dampedVelocity(velocityRef, normalizedFriction(friction),
                               deltaTime)
           c == commitPosition(
                    wrapPosition(candidatePosition(positionRef, v, deltaTime),
                                 loopPointRef),
                    <<>>)
       IN  /\ InPositionBound(c.position)
           /\ velocityRef' = v
           /\ positionRef' = c.position
           /\ transform' = c.transform
           /\ Finish("frame",
                     [SchedWith(c) EXCEPT !.timing = <<elapsed, deltaTime>>],
                     FALSE)
    /\ lastFrameTimeRef' = 1
    /\ animationFrameRef' = TRUE
    /\ pendingFrames' = (pendingFrames - 1) + 1
    /\ UNCHANGED <<props, geometry, isPausedRef, drag, isTabActive, mounted>>

\* ------------------------------------------------------------ timers

\* the host runs the callback of a timeout whose delay has elapsed
TimerFire ==
    \E t \in timers :
        /\ t.left = 0
        /\ timers' = timers \ {t}
        /\ inactivityTimerRef' = 0
        /\ IF ~autoScrollPropRef \/ isPausedRef
           THEN /\ UNCHANGED autoScrollEnabledRef
                /\ notified' = <<>>
           ELSE /\ autoScrollEnabledRef' = TRUE
                /\ notified' = <<"resume">>
        /\ lastOp' = "timer"
        /\ cancelled' = {}
        /\ measuredHeight' = <<>>
        /\ frameTiming' = <<>>
        /\ lastEvent' = <<>>
        /\ UNCHANGED <<props, geometry, motion, isPausedRef, drag, frameLoop,
                       mounted, sinceInteraction, history>>

\* TickMs milliseconds pass
Tick ==
    /\ \/ \E t \in timers : t.left > 0
       \/ sinceInteraction < SinceCap
    /\ timers' = {[t EXCEPT !.left = Max(0, @ - TickMs)] : t \in timers}
    /\ sinceInteraction' = Min(sinceInteraction + TickMs, SinceCap)
    /\ lastOp' = "tick"
    /\ notified' = <<>>
    /\ cancelled' = {}
    /\ measuredHeight' = <<>>
    /\ frameTiming' = <<>>
    /\ lastEvent' = <<>>
    /\ UNCHANGED <<props, geometry, motion, autoScrollEnabledRef,
                   inactivityTimerRef, isPausedRef, drag, frameLoop, mounted,
                   history>>

\* ------------------------------------------------------------ unmount

\* the effect cleanups without the one that clears the inactivity timer
Unmount_keepsTimer ==
    /\ mounted
    /\ mounted' = FALSE
    /\ animationFrameRef' = FALSE
    /\ pendingFrames' = cancelFrame
    /\ UNCHANGED <<props, geometry, motion, isPausedRef, drag, isTabActive,
                   lastFrameTimeRef>>
    /\ Finish("unmount", Sched, FALSE)

\* the effect cleanups: the timer, the frame callback and the listeners go
Unmount ==
    /\ mounted
    /\ mounted' = FALSE
    /\ animationFrameRef' = FALSE
    /\ pendingFrames' = cancelFrame
    /\ UNCHANGED <<props, geometry, motion, isPausedRef, drag, isTabActive,
                   lastFrameTimeRef>>
    /\ Finish("unmount", clearInactivityTimer(Sched), FALSE)

\* ------------------------------------------------------------ specification

Next ==
    \/ \E h \in Heights : RecalculateLoopPoint(h)
    \/ LoopPointSync
    \/ \E b \in PropChanges : SetAutoScroll(b)
    \/ \E b \in PropChanges : SetPauseOnInteraction(b)
    \/ KeySpace
    \/ \E k \in Keys : KeyArrow(k)
    \/ \E k \in Keys : KeyJump(k)
    \/ \E y \in ClientYs : handleMouseDown(y)
    \/ \E y \in ClientYs : handleMouseMove(y)
    \/ handleMouseUp
    \/ \E y \in TouchYs, n \in TouchCounts : handleTouchStart(y, n)
    \/ \E y \in TouchYs, n \in TouchCounts : handleTouchMove(y, n)
    \/ \E own \in BOOLEAN : handleTouchEnd(own)
    \/ \E d \in WheelDeltas : handleWheel(d)
    \/ \E type \in {"keydown", "mousedown", "touchstart", "touchmove", "wheel"},
          n \in TouchCounts : handlerReturns(type, n)
    \/ \E flag \in ChannelChanges : SetChannel(flag)
    \/ \E h \in Visibility : handleVisibilityChange(h)
    \/ \E e \in Elapsed : animate(e)
    \/ TimerFire
    \/ Tick
    \/ Unmount

Spec == Init /\ [][Next]_vars


\* A run under the fairness the host guarantees: time advances, and a
\* timeout whose delay has elapsed is run.  The scheduling runs are those of
\* a resumeDelay that clamps to zero, the channels and pacing runs those of
\* a timer that takes time and of visibility changes.
LiveInit ==
    /\ Init
    /\ \/ /\ scenario = "scheduling"
          /\ resumeDelay = Num(-1000)
          /\ autoScrollPropRef
          /\ pauseOnInteraction
       \/ scenario \in {"channels", "pacing"}

LiveSpec == LiveInit /\ [][Next]_vars /\ WF_vars(Tick) /\ WF_vars(TimerFire)

\* one animation frame callback
Frame == \E e \in Elapsed : animate(e)

\* The runs of the momentum and suspension families under the fairness
\* requestAnimationFrame guarantees, stated for the frames that matter to
\* momentum: if from some point on a frame callback is requested and the
\* velocity is not 0, frame callbacks keep running.  The steps are those of
\* Next that the two families enable.
FrameInit ==
    /\ Init
    /\ scenario \in {"momentum", "suspension"}

FrameNext ==
    \/ \E h \in Heights : RecalculateLoopPoint(h)
    \/ LoopPointSync
    \/ KeySpace
    \/ \E k \in Keys : KeyArrow(k)
    \/ \E d \in WheelDeltas : handleWheel(d)
    \/ \E h \in Visibility : handleVisibilityChange(h)
    \/ Frame
    \/ TimerFire
    \/ Unmount

FrameFairness ==
    []<><<Frame>>_vars \/ []<>(pendingFrames = 0 \/ velocityRef = 0)

FrameSpec == FrameInit /\ [][FrameNext]_vars /\ FrameFairness

\* ------------------------------------------------------------ pure functions

\* loop points a measurement can produce, and 0 for an unmeasured geometry
LoopPoints == {(h * UnitsPerPx) \div LOOP_SEGMENTS : h \in 0..MaxHeight}

WrapCalls ==
    {[fn |-> "wrapPosition", args |-> <<x, l>>, done |-> FALSE, result |-> 0] :
        x \in (-MaxRawPosition)..MaxRawPosition, l \in LoopPoints}

\* values a prop can be configured with: below, inside and above the
\* documented domain, and a non-finite one
PropValues ==
    {Num(n) : n \in {-MaxPropValue, -1, 0, 1, 10, DEFAULT_SPEED, 50,
                     DEFAULT_FRICTION, 100, 101, MaxPropValue}}
        \cup {NonFinite}

\* the decay step of a frame: a velocity, the friction prop and a deltaTime
DecayCalls ==
    {[fn |-> "dampedVelocity", args |-> <<v, p, dt>>, done |-> FALSE,
      result |-> 0] :
        v \in (-MaxDecayVelocity)..MaxDecayVelocity, p \in PropValues,
        dt \in 0..MAX_DELTA_TIME}

\* the normalization of a configured friction, resumeDelay or speed
NormalizeCalls ==
    {[fn |-> f, args |-> <<p>>, done |-> FALSE, result |-> 0] :
        f \in {"normalizedFriction", "normalizedResumeDelay", "normalizedSpeed"},
        p \in PropValues}

PureInit ==
    /\ scenario = "pure"
    /\ call \in WrapCalls \cup DecayCalls \cup NormalizeCalls
    /\ autoScrollPropRef = TRUE
    /\ pauseOnInteraction = TRUE
    /\ direction = "up"
    /\ friction = Num(DEFAULT_FRICTION)
    /\ resumeDelay = Num(DEFAULT_RESUME_DELAY)
    /\ keyboard = TRUE
    /\ draggable = TRUE
    /\ wheelEnabled = TRUE
    /\ InitInstance

ApplyWrapPosition ==
    /\ call.fn = "wrapPosition"
    /\ ~call.done
    /\ call' = [call EXCEPT !.done = TRUE,
                            !.result = wrapPosition(call.args[1], call.args[2])]
    /\ UNCHANGED <<scenario, direction, friction, resumeDelay,
                   autoScrollPropRef, pauseOnInteraction, geometry, motion,
                   scheduler, isPausedRef, drag, frameLoop, mounted, lastOp,
                   notified, cancelled, sinceInteraction, history,
                   measuredHeight, frameTiming, lastEvent, channels>>

ApplyDampedVelocity ==
    /\ call.fn = "dampedVelocity"
    /\ ~call.done
    /\ call' = [call EXCEPT
                   !.done = TRUE,
                   !.result = dampedVelocity(call.args[1],
                                             normalizedFriction(call.args[2]),
                                             call.args[3])]
    /\ UNCHANGED <<scenario, direction, friction, resumeDelay,
                   autoScrollPropRef, pauseOnInteraction, geometry, motion,
                   scheduler, isPausedRef, drag, frameLoop, mounted, lastOp,
                   notified, cancelled, sinceInteraction, history,
                   measuredHeight, frameTiming, lastEvent, channels>>

ApplyNormalize ==
    /\ call.fn \in {"normalizedFriction", "normalizedResumeDelay",
                    "normalizedSpeed"}
    /\ ~call.done
    /\ call' = [call EXCEPT
                   !.done = TRUE,
                   !.result =
                       CASE call.fn = "normalizedFriction" ->
                                normalizedFriction(call.args[1])
                         [] call.fn = "normalizedResumeDelay" ->
                                normalizedResumeDelay(call.args[1])
                         [] call.fn = "normalizedSpeed" ->
                                normalizedSpeed(call.args[1])]
    /\ UNCHANGED <<scenario, direction, friction, resumeDelay,
                   autoScrollPropRef, pauseOnInteraction, geometry, motion,
                   scheduler, isPausedRef, drag, frameLoop, mounted, lastOp,
                   notified, cancelled, sinceInteraction, history,
                   measuredHeight, frameTiming, lastEvent, channels>>

PureNext == ApplyWrapPosition \/ ApplyDampedVelocity \/ ApplyNormalize

PureSpec == PureInit /\ [][PureNext]_vars


\* ------------------------------------------------------------ properties

CommitOps == {"frame", "mousemove", "touchmove"}

\* the interactions that call pauseAutoScroll
PausingOps == {"wheel", "ArrowUp", "ArrowDown", "Home", "End", "mousedown",
               "touchstart"}

\* the interactions that call scheduleAutoScrollResume
ArmingOps == {"wheel", "ArrowUp", "ArrowDown", "Home", "End", "mouseup",
              "touchend"}

\* what can cancel a pending timer: interactions, Space, prop changes, unmount
DisturbingOps == PausingOps \cup ArmingOps \cup
                 {" ", "setAutoScroll", "setPauseOnInteraction", "unmount"}

Delivered(n) == \E i \in 1..Len(notified) : notified[i] = n

DeliveredCount(n) == Cardinality({i \in 1..Len(notified) : notified[i] = n})

\* C1 as stated: after a frame step or a drag move with loopPoint > 0 the
\* committed position lies in the half-open range (-2 * loopPoint, 0].
C1_PositionInHalfOpenRange ==
    (lastOp \in CommitOps /\ loopPointRef > 0)
        => (-2 * loopPointRef < positionRef /\ positionRef <= 0)

\* C1 amended: after a frame step or a drag move with loopPoint > 0 the
\* committed position lies in the closed range [-2 * loopPoint, 0].
C1_PositionInClosedRange ==
    (lastOp \in CommitOps /\ loopPointRef > 0)
        => (-2 * loopPointRef <= positionRef /\ positionRef <= 0)

\* a frame has wrapped a position that a shrunken loopPoint left out of range
C1_Witness ==
    /\ lastOp = "frame"
    /\ loopPointRef > 0
    /\ Delivered("scroll")
    /\ positionRef = -2 * loopPointRef

\* C2: while mounted with loopPoint > 0, the published transform is the visual
\* derivation of the committed position against the current loopPoint, and it
\* lies in (-loopPoint, 0].
C2_TransformIsVisualPosition ==
    (mounted /\ loopPointRef > 0)
        => /\ transform = visualPosition(positionRef, loopPointRef)
           /\ -loopPointRef < transform
           /\ transform <= 0

\* a loopPoint update found the position positive or below the canonical range
C2_Witness ==
    /\ mounted
    /\ lastOp \in {"measure", "loopPointSync"}
    /\ loopPointRef > 0
    /\ (positionRef > 0 \/ positionRef < -2 * loopPointRef)
    /\ transform # positionRef

WrapCalled ==
    /\ call.fn = "wrapPosition"
    /\ call.done
    /\ call.args[2] > 0

\* C3 as stated: for loopPoint > 0, wrapPosition(x) is congruent to x modulo
\* loopPoint and lies in (-2 * loopPoint, 0].
C3_WrapInHalfOpenRange ==
    WrapCalled
        => /\ (call.result - call.args[1]) % call.args[2] = 0
           /\ -2 * call.args[2] < call.result
           /\ call.result <= 0

\* C3 amended: for loopPoint > 0, wrapPosition(x) is congruent to x modulo
\* loopPoint and lies in [-2 * loopPoint, 0].
C3_WrapInClosedRange ==
    WrapCalled
        => /\ (call.result - call.args[1]) % call.args[2] = 0
           /\ -2 * call.args[2] <= call.result
           /\ call.result <= 0

\* wrapPosition has brought an input from below the range up to its lower end
C3_Witness ==
    /\ WrapCalled
    /\ call.args[1] < -2 * call.args[2]
    /\ call.result = -2 * call.args[2]

EarlierTimersGone == TimerIds(timers') \cap TimerIds(timers) = {}

\* C4 as stated: after any pausing interaction the live gate is off and no
\* timer armed before it remains pending, whatever pauseOnInteraction is; the
\* on-pause notification is invoked iff pauseOnInteraction is enabled.
C4_PauseUnconditional ==
    [][lastOp' \in PausingOps
          => /\ ~autoScrollEnabledRef'
             /\ EarlierTimersGone
             /\ (Delivered("pause")' <=> pauseOnInteraction)]_vars

\* C4 amended: after a pausing interaction with pauseOnInteraction enabled
\* the live gate is off, no timer armed before it remains pending and on-pause
\* is invoked exactly once; with pauseOnInteraction disabled the gate and the
\* timer are left as they were and on-pause is not invoked.
C4_PauseWhenEnabled ==
    [][lastOp' \in PausingOps
          => IF pauseOnInteraction
             THEN /\ ~autoScrollEnabledRef'
                  /\ EarlierTimersGone
                  /\ DeliveredCount("pause")' = 1
             ELSE /\ UNCHANGED scheduler
                  /\ ~Delivered("pause")']_vars

\* a drag start has cancelled the pending timer and notified on-pause
C4_Witness ==
    /\ lastOp \in {"mousedown", "touchstart"}
    /\ pauseOnInteraction
    /\ cancelled # {}
    /\ ~autoScrollEnabledRef
    /\ notified = <<"pause">>

\* C5 as stated: a timer-driven on-resume occurs only when at least
\* resumeDelay has elapsed since the most recent interaction of any channel
\* (wheel, handled key, drag start, drag move, drag end) and the autoScroll
\* policy is true at that moment.
C5_ResumeOnlyAfterQuietDelay ==
    (lastOp = "timer" /\ Delivered("resume"))
        => /\ sinceInteraction >= normalizedResumeDelay(resumeDelay)
           /\ autoScrollPropRef

\* C6: with the policy true, pauseOnInteraction true and no explicit pause,
\* an interaction that arms leaves a timer pending; a pending timer is
\* cancelled only by an interaction, a prop change or the unmount; and a
\* pending timer that is not cancelled eventually fires, turning the live
\* gate on and delivering exactly one on-resume.
C6_ResumeEventually ==
    /\ []((/\ lastOp \in ArmingOps
           /\ mounted /\ autoScrollPropRef /\ pauseOnInteraction /\ ~isPausedRef)
             => \E t \in timers : t.id = inactivityTimerRef)
    /\ [](cancelled # {} => lastOp \in DisturbingOps)
    /\ \A i \in {1, 2} :
           (i \in TimerIds(timers))
               ~> \/ i \in cancelled
                  \/ /\ lastOp = "timer"
                     /\ notified = <<"resume">>
                     /\ autoScrollEnabledRef
                     /\ timers = {}

\* the timer of a wheel event has fired after a full quiet delay
C6_Witness ==
    /\ lastOp = "timer"
    /\ notified = <<"resume">>
    /\ autoScrollEnabledRef
    /\ timers = {}
    /\ sinceInteraction = SinceCap
    /\ SinceCap > 0

\* C7: at most one resume timer is pending, it is the one the timer ref
\* names (the most recently armed), and once a timer has fired none is left
\* to fire for the same burst.
C7_AtMostOneTimer ==
    /\ Cardinality(timers) <= 1
    /\ \A t \in timers : t.id = inactivityTimerRef
    /\ lastOp = "timer" => timers = {}

\* an interaction has re-armed: the previous timer is cancelled, one is pending
C7_Witness ==
    /\ lastOp \in ArmingOps
    /\ cancelled # {}
    /\ Cardinality(timers) = 1
    /\ cancelled \cap TimerIds(timers) = {}

\* C8: the step that turns the autoScroll policy off cancels the pending
\* timer, forces the live gate on and delivers nothing; while the policy is
\* off no timer is pending and none fires.
C8_PolicyOffCancelsTimer ==
    /\ (lastOp = "setAutoScroll" /\ ~autoScrollPropRef)
           => /\ autoScrollEnabledRef
              /\ notified = <<>>
    /\ ~autoScrollPropRef
           => /\ timers = {}
              /\ inactivityTimerRef = 0
              /\ lastOp # "timer"

\* the policy was turned off while a timer was pending
C8_Witness ==
    /\ lastOp = "setAutoScroll"
    /\ ~autoScrollPropRef
    /\ cancelled # {}
    /\ autoScrollEnabledRef

\* C9 as stated, read in the claim's favour with an active explicit (Space)
\* pause set aside: whenever the autoScroll policy is switched from false
\* back to true, the live gate is on at that moment, whatever wheel, key or
\* drag events occurred while the policy was off.
C9_NoStaleSuppression ==
    (lastOp = "setAutoScroll" /\ autoScrollPropRef /\ ~isPausedRef)
        => autoScrollEnabledRef

\* C10: on-resume is never delivered while the autoScroll policy is false or
\* an explicit pause is active, by a timer or by Space; a timer that fires in
\* such a state leaves the live gate off.
C10_NoResumeWhileOffOrPaused ==
    /\ Delivered("resume") => (autoScrollPropRef /\ ~isPausedRef)
    /\ (lastOp = "timer" /\ (~autoScrollPropRef \/ isPausedRef))
           => (~autoScrollEnabledRef /\ notified = <<>>)

\* Space has ended an explicit pause while the policy is off: no on-resume
C10_Witness ==
    /\ lastOp = " "
    /\ ~isPausedRef
    /\ ~autoScrollPropRef
    /\ autoScrollEnabledRef
    /\ notified = <<>>

\* Space has been pressed twice, pausing and then unpausing, with no other
\* handler in between
SpacePressedTwice ==
    /\ lastOp = " "
    /\ ~isPausedRef
    /\ beforePause.set

\* C11 as stated: pressing Space twice returns the live gate to exactly the
\* value it had before the first press, also when the gate was off with a
\* resume timer pending, and the second press delivers on-resume only if the
\* autoScroll policy is true.
C11_SpaceTwiceRestoresGate ==
    SpacePressedTwice
        => /\ autoScrollEnabledRef = beforePause.gate
           /\ Delivered("resume") => autoScrollPropRef

\* C11 amended: pressing Space twice leaves the live gate on and no timer
\* pending, which is the value before the first press exactly when the gate
\* was on then; the second press delivers on-resume once if the autoScroll
\* policy is true and not otherwise.
C11_SpaceTwiceTurnsGateOn ==
    SpacePressedTwice
        => /\ autoScrollEnabledRef
           /\ timers = {}
           /\ (autoScrollEnabledRef = beforePause.gate) <=> beforePause.gate
           /\ notified = IF autoScrollPropRef THEN <<"resume">> ELSE <<>>

\* two presses on a gate that was off with a timer pending have left it on
C11_Witness ==
    /\ SpacePressedTwice
    /\ ~beforePause.gate
    /\ beforePause.armed
    /\ autoScrollEnabledRef
    /\ timers = {}

\* C12: each Space press toggles isPaused; a press that enters the explicit
\* pause sets the live gate off, cancels any pending timer and delivers
\* on-pause exactly once; a press that leaves it sets the live gate on and
\* delivers on-resume exactly once if the autoScroll policy is true and
\* nothing otherwise; pauseOnInteraction plays no part.
C12_SpaceToggles ==
    [][lastOp' = " "
          => /\ isPausedRef' = ~isPausedRef
             /\ timers' = {}
             /\ inactivityTimerRef' = 0
             /\ IF isPausedRef'
                THEN /\ ~autoScrollEnabledRef'
                     /\ notified' = <<"pause">>
                ELSE /\ autoScrollEnabledRef'
                     /\ notified' = IF autoScrollPropRef THEN <<"resume">>
                                    ELSE <<>>]_vars

\* with pauseOnInteraction off, a Space press has paused and cancelled a timer
C12_Witness ==
    /\ lastOp = " "
    /\ isPausedRef
    /\ ~pauseOnInteraction
    /\ cancelled # {}
    /\ ~autoScrollEnabledRef
    /\ notified = <<"pause">>

\* the interactions of the wheel, arrow, Home, End and drag channels
InteractionOps == PausingOps \cup ArmingOps \cup {"mousemove", "touchmove"}

\* C13: with pauseOnInteraction false, no wheel, arrow, Home, End or drag
\* event delivers on-pause, turns the live gate off or arms a timer (it
\* leaves the gate, the timer ref and the pending timers as they were), and
\* it still has its effect on velocity, position and the drag flag.
C13_NoPauseWhenDisabled ==
    [][(lastOp' \in InteractionOps /\ ~pauseOnInteraction)
          => /\ UNCHANGED scheduler
             /\ notified' \in {<<>>, <<"scroll">>}
             /\ lastOp' = "ArrowUp" => velocityRef' = velocityRef + ArrowImpulse
             /\ lastOp' = "ArrowDown" => velocityRef' = velocityRef - ArrowImpulse
             /\ lastOp' = "wheel" => velocityRef' # velocityRef
             /\ lastOp' \in {"Home", "End"} => velocityRef' = 0
             /\ lastOp' = "Home" => positionRef' = 0
             /\ lastOp' \in {"mousedown", "touchstart"}
                    => (isDraggingRef' /\ velocityRef' = 0)
             /\ lastOp' \in {"mouseup", "touchend"} => ~isDraggingRef']_vars

\* with pauseOnInteraction false and the policy on, a wheel event has changed
\* the velocity and left the gate on with no timer
C13_Witness ==
    /\ lastOp = "wheel"
    /\ ~pauseOnInteraction
    /\ autoScrollPropRef
    /\ ~isPausedRef
    /\ velocityRef # 0
    /\ autoScrollEnabledRef
    /\ timers = {}
    /\ notified = <<>>

\* C14: a wheel event with vertical delta d changes the velocity by -0.3 * d
\* (d = 120 from rest gives -36 px), ArrowUp by +15 px and ArrowDown by
\* -15 px, each added onto the current velocity; none of the three changes
\* the committed position, the transform, the geometry or the drag state.
C14_ImpulsesChangeOnlyVelocity ==
    [][lastOp' \in {"wheel", "ArrowUp", "ArrowDown"}
          => /\ UNCHANGED <<positionRef, transform, geometry, drag>>
             /\ ~Delivered("scroll")'
             /\ lastOp' = "ArrowUp" => velocityRef' = velocityRef + 15 * UnitsPerPx
             /\ lastOp' = "ArrowDown" => velocityRef' = velocityRef - 15 * UnitsPerPx
             /\ lastOp' = "wheel"
                    => \E d \in WheelDeltas :
                           velocityRef' = velocityRef - (3 * d * UnitsPerPx) \div 10
             /\ 0 - wheelImpulse(120) = -36 * UnitsPerPx]_vars

\* a wheel event has added its impulse onto a velocity left by an earlier one
C14_Witness ==
    /\ lastOp = "wheel"
    /\ \E d \in WheelDeltas :
           /\ velocityRef + wheelImpulse(d) # 0
           /\ Abs(velocityRef + wheelImpulse(d)) < ArrowImpulse
    /\ positionRef # 0

\* End with a measured loopPoint commits -loopPoint, Home commits 0, and both
\* set the velocity to 0
JumpCommits ==
    /\ (lastOp' = "End" /\ loopPointRef > 0) => positionRef' = -loopPointRef
    /\ lastOp' = "Home" => positionRef' = 0
    /\ velocityRef' = 0
    /\ transform' = visualPosition(positionRef', loopPointRef)
    /\ UNCHANGED geometry

\* the step has armed the one pending timer, with the full resumeDelay to run
ArmedAfresh ==
    /\ timers' = {[id |-> inactivityTimerRef',
                   left |-> normalizedResumeDelay(resumeDelay)]}
    /\ inactivityTimerRef' \notin TimerIds(timers)

\* C15 as stated: End with a measured loopPoint L > 0 commits position -L and
\* velocity 0, Home commits position 0 and velocity 0, from any prior position
\* and velocity, and both then pause (gate off, on-pause) and arm the timer.
C15_JumpThenPauseAndArm ==
    [][lastOp' \in {"End", "Home"}
          => /\ JumpCommits
             /\ ~autoScrollEnabledRef'
             /\ Delivered("pause")'
             /\ ArmedAfresh]_vars

\* C15 amended: End with a measured loopPoint L > 0 commits position -L and
\* velocity 0, Home commits position 0 and velocity 0, from any prior position
\* and velocity; with pauseOnInteraction enabled both then pause (gate off,
\* one on-pause, earlier timer gone) and, when also the policy is on and no
\* explicit pause is active, arm the timer afresh; with pauseOnInteraction
\* disabled they leave the gate and the timer as they were.
C15_JumpThenPauseWhenEnabled ==
    [][lastOp' \in {"End", "Home"}
          => /\ JumpCommits
             /\ pauseOnInteraction
                    => /\ ~autoScrollEnabledRef'
                       /\ DeliveredCount("pause")' = 1
                       /\ EarlierTimersGone
             /\ (pauseOnInteraction /\ autoScrollPropRef /\ ~isPausedRef)
                    => ArmedAfresh
             /\ ~pauseOnInteraction
                    => (UNCHANGED scheduler /\ ~Delivered("pause")')]_vars

\* End has jumped to -loopPoint from elsewhere, paused and armed the timer
C15_Witness ==
    /\ lastOp = "End"
    /\ loopPointRef > 0
    /\ positionRef = -loopPointRef
    /\ velocityRef = 0
    /\ notified = <<"scroll", "pause">>
    /\ ~autoScrollEnabledRef
    /\ timers # {}

\* C16 as stated: isDragging is true exactly between a drag start and the end
\* of the pointer that started it; a mouseup or touchend of another pointer,
\* or of an additional finger, does not end the drag.
C16_DraggingUntilOwnEnd ==
    isDraggingRef <=> dragPointer # "none"

\* the velocity after the step is the decay of the velocity before it
VelocityDecays ==
    \E e \in Elapsed :
        velocityRef' = dampedVelocity(velocityRef, normalizedFriction(friction),
                                      deltaTimeOf(lastFrameTimeRef = 0, e))

\* C17 as stated: a frame step while isDragging is true leaves the committed
\* position unchanged; only the velocity decays.
C17_FrameWhileDraggingKeepsPosition ==
    [][(lastOp' = "frame" /\ isDraggingRef)
          => /\ positionRef' = positionRef
             /\ VelocityDecays]_vars

\* C17 amended: a frame step while isDragging is true applies neither the
\* autonomous nor the momentum term: it commits the wrap of the position as
\* it stands, which is the position itself when that lies in
\* [-2 * loopPoint, 0] or loopPoint is 0 and differs from it by a multiple of
\* loopPoint otherwise; the transform is unchanged and the velocity decays.
C17_FrameWhileDraggingOnlyWraps ==
    [][(lastOp' = "frame" /\ isDraggingRef)
          => /\ positionRef' = wrapPosition(positionRef, loopPointRef)
             /\ (loopPointRef = 0 \/ (-2 * loopPointRef <= positionRef
                                       /\ positionRef <= 0))
                    => (positionRef' = positionRef /\ ~Delivered("scroll")')
             /\ loopPointRef > 0
                    => (positionRef' - positionRef) % loopPointRef = 0
             /\ transform' = transform
             /\ VelocityDecays]_vars

\* a frame has run during a drag, with the policy and the gate on, and has
\* not moved the position
C17_Witness ==
    /\ lastOp = "frame"
    /\ isDraggingRef
    /\ autoScrollPropRef
    /\ autoScrollEnabledRef
    /\ notified = <<>>

\* the step is a frame of autonomous scrolling alone: policy and gate on, no
\* drag, no velocity left
AutonomousFrame ==
    /\ lastOp' = "frame"
    /\ autoScrollPropRef
    /\ autoScrollEnabledRef
    /\ ~isDraggingRef
    /\ velocityRef = 0

\* C18: the live gate goes off only in a step that is an interaction or a
\* Space press, so without one it stays on; a frame of autonomous scrolling
\* alone commits the wrap of position + direction * speed * deltaTime
\* (direction -1 for 'up', +1 for 'down', the default speed), congruent to it
\* modulo loopPoint, and under 'up' a frame that does not wrap commits a
\* strictly smaller position.
C18_AutonomousFrameStep ==
    [][/\ (autoScrollEnabledRef /\ ~autoScrollEnabledRef')
              => lastOp' \in PausingOps \cup {" "}
       /\ AutonomousFrame
              => \E e \in Elapsed :
                     LET deltaTime == deltaTimeOf(lastFrameTimeRef = 0, e)
                         sign == IF direction = "up" THEN -1 ELSE 1
                         candidate == positionRef + sign * DEFAULT_SPEED * deltaTime
                     IN  /\ positionRef' = wrapPosition(candidate, loopPointRef)
                         /\ loopPointRef > 0
                                => (positionRef' - candidate) % loopPointRef = 0
                         /\ (loopPointRef = 0 \/ (-2 * loopPointRef <= candidate
                                                   /\ candidate <= 0))
                                => positionRef' = candidate
                         /\ (direction = "up" /\ positionRef' = candidate)
                                => positionRef' < positionRef
                         /\ velocityRef' = 0]_vars

\* under 'up', a frame of autonomous scrolling has moved the position down
C18_Witness ==
    /\ lastOp = "frame"
    /\ direction = "up"
    /\ autoScrollPropRef
    /\ autoScrollEnabledRef
    /\ ~isDraggingRef
    /\ velocityRef = 0
    /\ loopPointRef > 0
    /\ positionRef < -DEFAULT_SPEED
    /\ notified = <<"scroll">>

\* C19: on-scroll is delivered by a step exactly when the step changes the
\* committed position, once, with the new committed position (not the
\* transform) as its value, which therefore differs from the value of the
\* on-scroll before it; a commit of the current position publishes nothing.
C19_ScrollExactlyOnChange ==
    [][/\ Delivered("scroll")' <=> positionRef' # positionRef
       /\ DeliveredCount("scroll")' <= 1
       /\ Delivered("scroll")'
              => /\ lastScrollValue' = <<positionRef'>>
                 /\ lastScrollValue' # lastScrollValue
       /\ ~Delivered("scroll")' => lastScrollValue' = lastScrollValue
       /\ (positionRef' = positionRef
             /\ lastOp' \notin {"measure", "loopPointSync"})
              => transform' = transform]_vars

\* on-scroll has carried a committed position that is not the visual one
C19_Witness ==
    /\ Delivered("scroll")
    /\ lastScrollValue = <<positionRef>>
    /\ positionRef # transform
    /\ loopPointRef > 0

\* C20: a measurement of a positive height sets the loopPoint the wrap and
\* the render read to a third of that height, a measurement of a height <= 0
\* leaves the geometry as it was; loopPoint (the ref and the React state) is
\* never negative and, once positive, never returns to 0.
C20_LoopPointFromMeasurement ==
    [][/\ lastOp' = "measure"
              => /\ measuredHeight' # <<>>
                 /\ IF measuredHeight'[1] > 0
                    THEN LOOP_SEGMENTS * loopPointRef'
                             = measuredHeight'[1] * UnitsPerPx
                    ELSE UNCHANGED <<geometry, transform>>
       /\ loopPointRef' >= 0
       /\ loopPoint' >= 0
       /\ loopPointRef > 0 => loopPointRef' > 0
       /\ loopPoint > 0 => loopPoint' > 0]_vars

\* a measurement of height 0 has left a measured loopPoint as it was
C20_Witness ==
    /\ lastOp = "measure"
    /\ measuredHeight = <<0>>
    /\ loopPointRef > 0
    /\ loopPoint > 0
    /\ loopPoint # loopPointRef


\* what a frame adds to the position before wrapping, from the state before
\* it and the velocity and deltaTime it has left: the autonomous term when the
\* policy and the gate are on and no drag runs, the momentum term when no
\* drag runs and the decayed velocity exceeds 0.1
FrameAdvance ==
    LET dt == frameTiming'[2]
    IN  (IF autoScrollPropRef /\ autoScrollEnabledRef /\ ~isDraggingRef
         THEN (IF direction = "down" THEN 1 ELSE -1) * DEFAULT_SPEED * dt
         ELSE 0)
        + (IF ~isDraggingRef /\ Abs(velocityRef') > VelocityThreshold
           THEN velocityRef' * dt
           ELSE 0)

\* with loopPoint = 0: wrapPosition is the identity, a frame and a drag move
\* commit the candidate as it is, and End leaves the position and sets the
\* velocity to 0
UnmeasuredNoOp ==
    /\ \A x \in {-MaxRawPosition, positionRef, positionRef', MaxRawPosition} :
           wrapPosition(x, 0) = x
    /\ lastOp' = "mousemove"
           => positionRef' = positionRef
                                 + (lastMouseYRef' - lastMouseYRef) * UnitsPerPx
    /\ lastOp' = "touchmove"
           => positionRef' = positionRef
                                 + (lastTouchYRef' - lastTouchYRef) * UnitsPerPx
    /\ lastOp' = "frame" => positionRef' = positionRef + FrameAdvance
    /\ lastOp' = "End"
           => /\ positionRef' = positionRef
              /\ ~Delivered("scroll")'
              /\ velocityRef' = 0
    /\ UNCHANGED geometry \/ lastOp' \in {"measure", "loopPointSync"}

\* C21 as stated: while loopPoint = 0 no operation fails: wrapPosition
\* returns its input, frames and drag moves commit the unwrapped candidate,
\* and End leaves the position unchanged, still zeroing the velocity, pausing
\* (gate off, on-pause) and arming the timer.
C21_UnmeasuredEndPausesAndArms ==
    [][loopPointRef = 0
          => /\ UnmeasuredNoOp
             /\ lastOp' = "End"
                    => /\ ~autoScrollEnabledRef'
                       /\ Delivered("pause")'
                       /\ ArmedAfresh]_vars

\* C21 amended: while loopPoint = 0 no operation fails: wrapPosition returns
\* its input, frames and drag moves commit the unwrapped candidate, and End
\* leaves the position unchanged and sets the velocity to 0; with
\* pauseOnInteraction enabled End then pauses (gate off, one on-pause, earlier
\* timer gone) and, when also the policy is on and no explicit pause is
\* active, arms the timer afresh; with pauseOnInteraction disabled it leaves
\* the gate and the timer as they were.
C21_UnmeasuredGeometryIsNoOp ==
    [][loopPointRef = 0
          => /\ UnmeasuredNoOp
             /\ lastOp' = "End"
                    => /\ pauseOnInteraction
                              => /\ ~autoScrollEnabledRef'
                                 /\ DeliveredCount("pause")' = 1
                                 /\ EarlierTimersGone
                       /\ (pauseOnInteraction /\ autoScrollPropRef /\ ~isPausedRef)
                              => ArmedAfresh
                       /\ ~pauseOnInteraction
                              => (UNCHANGED scheduler /\ ~Delivered("pause")')]_vars

\* End was pressed before any measurement, at a position frames had moved
\* away from 0, and has left it there
C21_Witness ==
    /\ lastOp = "End"
    /\ loopPointRef = 0
    /\ positionRef # 0
    /\ velocityRef = 0
    /\ notified = <<>>


C22_NothingAfterUnmount ==
    [][~mounted'
          => /\ timers' = {}
             /\ pendingFrames' = 0
             /\ notified' = <<>>
             /\ lastOp' = IF mounted THEN "unmount" ELSE "tick"
             /\ ~mounted
                    => UNCHANGED <<props, geometry, motion, scheduler,
                                   isPausedRef, drag, frameLoop, mounted>>]_vars

\* time has passed after an unmount that found the gate off and a timer
\* pending: the gate is still off
C22_Witness ==
    /\ ~mounted
    /\ lastOp = "tick"
    /\ autoScrollPropRef
    /\ pauseOnInteraction
    /\ ~isPausedRef
    /\ ~autoScrollEnabledRef
    /\ isTabActive


DecayCalled ==
    /\ call.fn = "dampedVelocity"
    /\ call.done

\* C25: with the friction used f in [0, 1] and deltaTime >= 0, the decay of a
\* velocity v with |v| > 0.1 has the magnitude |v| * f^deltaTime (rounded
\* toward zero to a whole unit) and never the opposite sign, the decay of a
\* velocity with |v| <= 0.1 is 0, and the magnitude never grows.
C25_VelocityDecay ==
    DecayCalled
        => LET v == call.args[1]
               f == normalizedFriction(call.args[2])
               dt == call.args[3]
               magnitude == (Abs(v) * Pow(f, dt)) \div Pow(100, dt)
           IN  /\ 0 <= f /\ f <= 100
               /\ Abs(v) > VelocityThreshold
                      => /\ Abs(call.result) = magnitude
                         /\ v > 0 => call.result >= 0
                         /\ v < 0 => call.result <= 0
               /\ Abs(v) <= VelocityThreshold => call.result = 0
               /\ Abs(call.result) <= Abs(v)
               /\ (f = 100 /\ Abs(v) > VelocityThreshold) => call.result = v

\* a negative velocity has decayed over two frame units to a smaller
\* negative one
C25_Witness ==
    /\ DecayCalled
    /\ call.args[1] < 0
    /\ call.args[3] = 2
    /\ call.result < 0
    /\ call.result > call.args[1]
    /\ call.result # TruncDiv(call.args[1] * normalizedFriction(call.args[2]), 100)

NormalizeCalled ==
    /\ call.fn \in {"normalizedFriction", "normalizedResumeDelay",
                    "normalizedSpeed"}
    /\ call.done

\* C26: whatever value is configured, the friction used is in [0, 1], the
\* speed used and the resume delay used are >= 0, a value inside the domain
\* is used as it is, and a non-finite friction, speed or resumeDelay is
\* replaced by its default (0.95, 0.5, 2000).
C26_NormalizedInDomain ==
    NormalizeCalled
        => LET p == call.args[1]
               default == CASE call.fn = "normalizedFriction" -> 95
                            [] call.fn = "normalizedSpeed" -> UnitsPerPx \div 2
                            [] call.fn = "normalizedResumeDelay" -> 2000
               upper == IF call.fn = "normalizedFriction" THEN 100
                        ELSE MaxPropValue + 1
           IN  /\ 0 <= call.result
               /\ call.result <= upper
               /\ ~p.finite => call.result = default
               /\ (p.finite /\ 0 <= p.val /\ p.val <= upper)
                      => call.result = p.val

\* a friction above 1 has been clamped to 1
C26_Witness ==
    /\ NormalizeCalled
    /\ call.fn = "normalizedFriction"
    /\ call.args[1].finite
    /\ call.args[1].val > 100
    /\ call.result = 100


\* the step is an interaction that has armed a timer
JustArmed ==
    /\ lastOp' \in ArmingOps
    /\ \E t \in timers' : t.id \notin TimerIds(timers)

\* C27 as stated: a negative configured resumeDelay is replaced by the
\* default, as a non-finite one is: the timer an interaction arms then runs
\* for 2000 ms.
C27_NegativeDelayDefaults ==
    [][(JustArmed /\ (~resumeDelay.finite \/ resumeDelay.val < 0))
          => \A t \in timers' : t.left = 2000]_vars

\* C27 amended: a negative configured resumeDelay is clamped to 0, and only a
\* non-finite one is replaced by the default: the timer an interaction arms
\* runs for 0 ms under a negative resumeDelay, for 2000 ms under a non-finite
\* one and for resumeDelay ms otherwise.
C27_NegativeDelayClampsToZero ==
    [][JustArmed
          => \A t \in timers' :
                 t.left = IF ~resumeDelay.finite THEN 2000
                          ELSE IF resumeDelay.val < 0 THEN 0
                          ELSE resumeDelay.val]_vars

\* an interaction under a negative resumeDelay has armed a timer that is due
\* at once
C27_Witness ==
    /\ lastOp \in ArmingOps
    /\ timers # {}
    /\ cancelled # {}
    /\ resumeDelay.finite
    /\ resumeDelay.val < 0
    /\ \A t \in timers : t.left = 0


\* the flag of the channel an input event of the given type belongs to
ChannelEnabled(type) ==
    CASE type = "keydown" -> keyboard
      [] type = "wheel" -> wheelEnabled
      [] OTHER -> draggable

\* the state the input channels act on
ChannelEffects ==
    <<positionRef, velocityRef, isDraggingRef, isPausedRef, scheduler>>

\* C28 as stated: an input event of a channel whose flag is false changes
\* neither position, velocity, isDragging, isPaused, the live gate nor the
\* resume timer, and delivers no notification.
C28_DisabledChannelInert ==
    [][(lastEvent' # <<>> /\ ~ChannelEnabled(lastEvent'[1]))
          => /\ UNCHANGED ChannelEffects
             /\ notified' = <<>>]_vars


\* the step delivers a window-level move or end event of a pointer other
\* than the one dragging this instance: an event of a gesture that started
\* elsewhere on the page, such as the drag of another instance
ForeignGestureEvent ==
    \/ lastOp' \in {"mousemove", "mouseup"} /\ dragPointer # "mouse"
    \/ lastOp' = "touchmove" /\ dragPointer # "touch"
    \/ lastOp' = "touchend" /\ dragPointer = "mouse"

\* C29 as stated: the window-level move and end events of a drag of another
\* instance on the page never change this instance's position, velocity,
\* isDragging, live gate or timer, and deliver none of its notifications.
C29_OtherInstanceInert ==
    [][ForeignGestureEvent
          => /\ UNCHANGED <<positionRef, velocityRef, isDraggingRef, scheduler>>
             /\ notified' = <<>>]_vars


\* the step delivers a touch start or a touch move that carries a number of
\* contacts other than one
MultiTouchEvent ==
    /\ lastEvent' # <<>>
    /\ lastEvent'[1] \in {"touchstart", "touchmove"}
    /\ lastEvent'[2] # 1

\* C30: a touch start with more or fewer than one contact starts no drag
\* (isDragging, velocity, anchor, gate and timer unchanged) and a touch move
\* with other than exactly one contact leaves position, velocity and anchor
\* unchanged; neither delivers a notification.
C30_MultiTouchIgnored ==
    [][MultiTouchEvent
          => /\ UNCHANGED <<positionRef, velocityRef, transform, drag,
                            scheduler, isPausedRef>>
             /\ notified' = <<>>]_vars

C30_Witness ==
    /\ lastOp = "returned"
    /\ lastEvent = <<"touchmove", MaxTouches>>
    /\ isDraggingRef
    /\ dragPointer = "touch"


\* The reference computation of one frame, step by step in the order decay,
\* autonomous term, momentum term, wrap: the committed position and the
\* velocity it leaves, as a function of its arguments alone.
FrameReference(p, v, l, policy, gate, dragging, d, f, dt) ==
    LET decayed == IF Abs(v) > VelocityThreshold
                   THEN TruncDiv(v * Pow(f, dt), Pow(100, dt))
                   ELSE 0
        afterAuto == IF policy /\ gate /\ ~dragging
                     THEN p + (IF d = "down" THEN 1 ELSE -1) * DEFAULT_SPEED * dt
                     ELSE p
        afterMomentum == IF ~dragging /\ Abs(decayed) > VelocityThreshold
                         THEN afterAuto + decayed * dt
                         ELSE afterAuto
    IN  [position |-> wrapPosition(afterMomentum, l), velocity |-> decayed]

\* C31: one frame equals the reference computation applied in the order
\* decay, autonomous term, momentum term, wrap, commit: the momentum term
\* uses the velocity already decayed in the same frame and is skipped when
\* that magnitude is at most the threshold, the autonomous term is added iff
\* policy, live gate and not-dragging hold, and the committed position, the
\* velocity and the published transform are a function of position,
\* velocity, loopPoint, the flags and deltaTime.
C31_FrameIsReference ==
    [][lastOp' = "frame"
          => LET r == FrameReference(positionRef, velocityRef, loopPointRef,
                                     autoScrollPropRef, autoScrollEnabledRef,
                                     isDraggingRef, direction,
                                     normalizedFriction(friction),
                                     frameTiming'[2])
             IN  /\ positionRef' = r.position
                 /\ velocityRef' = r.velocity
                 /\ transform' = visualPosition(r.position, loopPointRef)
                 /\ UNCHANGED <<loopPointRef, autoScrollPropRef,
                                autoScrollEnabledRef, isDraggingRef>>]_vars

\* a frame of deltaTime 2 has decayed an impulse and applied what is left of
\* it as momentum
C31_Witness ==
    /\ lastOp = "frame"
    /\ frameTiming # <<>>
    /\ frameTiming[2] = 2
    /\ Abs(velocityRef) > VelocityThreshold
    /\ ~isDraggingRef
    /\ notified = <<"scroll">>


\* the anchor of a channel
AnchorOf(channel) == IF channel = "mouse" THEN lastMouseYRef ELSE lastTouchYRef

\* the drag that dragOrigin describes has displaced the committed position by
\* the travel of its pointer since the start, up to whole loops
DragDisplacement ==
    dragOrigin # <<>>
        => LET travelled == (AnchorOf(dragOrigin[3]) - dragOrigin[2]) * UnitsPerPx
               expected == dragOrigin[1] + travelled
           IN  IF loopPointRef > 0
               THEN (positionRef - expected) % loopPointRef = 0
               ELSE positionRef = expected

\* C32: during one drag (a start, moves of its pointer, frames in between,
\* its end) the start sets the velocity to 0 and leaves the position; every
\* move commits wrap(position + delta) with delta measured from the previous
\* anchor, makes the velocity that delta and the anchor the new clientY; the
\* end changes neither; and from the start to the end the committed position
\* is congruent modulo loopPoint to the start position plus the travel of the
\* pointer (equal to it while loopPoint is 0).
C32_DragDisplacesByTravel ==
    [][/\ lastOp' \in {"mousedown", "touchstart"}
              => /\ velocityRef' = 0
                 /\ positionRef' = positionRef
                 /\ dragOrigin' # <<>>
       /\ lastOp' = "mousemove"
              => LET delta == (lastMouseYRef' - lastMouseYRef) * UnitsPerPx
                 IN  /\ positionRef' = wrapPosition(positionRef + delta,
                                                    loopPointRef)
                     /\ velocityRef' = delta
       /\ lastOp' = "touchmove"
              => LET delta == (lastTouchYRef' - lastTouchYRef) * UnitsPerPx
                 IN  /\ positionRef' = wrapPosition(positionRef + delta,
                                                    loopPointRef)
                     /\ velocityRef' = delta
       /\ lastOp' \in {"mouseup", "touchend"}
              => UNCHANGED <<positionRef, velocityRef>>
       /\ DragDisplacement']_vars

\* a mouse drag has ended with its pointer one px from where it started and
\* the velocity at 0; a wrap has taken the position one loop below the start
\* position plus the travel
C32_Witness ==
    /\ lastOp = "mouseup"
    /\ dragOrigin # <<>>
    /\ dragOrigin[3] = "mouse"
    /\ lastMouseYRef - dragOrigin[2] = 1
    /\ velocityRef = 0
    /\ loopPointRef > 0
    /\ positionRef = dragOrigin[1] + UnitsPerPx - loopPointRef


\* the events that change the velocity other than by its decay
VelocityOps == ImpulseOps \cup VelocitySetOps

\* the instance is Active with a measured geometry and the last step was no
\* event that sets or changes the velocity
QuietActive ==
    /\ mounted
    /\ ~Suspended
    /\ loopPointRef > 0
    /\ lastOp \notin VelocityOps

\* C33: a velocity other than 0 leads to a velocity of exactly 0 unless the
\* instance leaves Active or an input event arrives first; a velocity of 0
\* stays 0 until such an event; and a frame that finds the velocity at 0
\* moves the position by the autonomous term alone.  So if from some point
\* on the instance stays Active and no input event arrives, the velocity
\* eventually is 0 for good.
C33_MomentumDiesOut ==
    /\ [][(velocityRef = 0 /\ velocityRef' # 0) => lastOp' \in VelocityOps]_vars
    /\ [][(lastOp' = "frame" /\ velocityRef = 0)
             => /\ velocityRef' = 0
                /\ positionRef' =
                       wrapPosition(
                           positionRef
                             + (IF autoScrollPropRef /\ autoScrollEnabledRef
                                   /\ ~isDraggingRef
                                THEN directionMultiplier(direction)
                                       * DEFAULT_SPEED * frameTiming'[2]
                                ELSE 0),
                           loopPointRef)]_vars
    /\ (velocityRef # 0) ~> (velocityRef = 0 \/ ~QuietActive)

\* with autonomous scrolling configured off, momentum has moved the position
\* and a frame has left the velocity at 0
C33_Witness ==
    /\ lastOp = "frame"
    /\ velocityRef = 0
    /\ ~autoScrollPropRef
    /\ positionRef # 0
    /\ ~Suspended
    /\ loopPointRef > 0



\* C34: pause and resume notifications alternate: on-pause is delivered only
\* by a step that takes the live gate from on to off and on-resume only by a
\* step that takes it from off to on, so two on-pause are separated by an
\* on-resume and two on-resume by an on-pause.
C34_NotificationsAlternate ==
    [][/\ Delivered("pause")'
              => (autoScrollEnabledRef /\ ~autoScrollEnabledRef')
       /\ Delivered("resume")'
              => (~autoScrollEnabledRef /\ autoScrollEnabledRef')]_vars

\* C34, as the code has it: on-pause is delivered, once, only by a Space
\* press that enters the explicit pause or by a pausing interaction while
\* pauseOnInteraction is enabled, and the step leaves the live gate off,
\* whether or not it was off before; on-resume is delivered, once, only by a
\* firing resume timer or a Space press that leaves the explicit pause, and
\* the step leaves the live gate on with the policy flag true and no explicit
\* pause, whether or not the gate was on before.
C34_NotificationsFollowGate ==
    [][/\ Delivered("pause")'
              => /\ DeliveredCount("pause")' = 1
                 /\ ~Delivered("resume")'
                 /\ ~autoScrollEnabledRef'
                 /\ \/ lastOp' = " " /\ isPausedRef' /\ ~isPausedRef
                    \/ lastOp' \in PausingOps /\ pauseOnInteraction
       /\ Delivered("resume")'
              => /\ DeliveredCount("resume")' = 1
                 /\ autoScrollEnabledRef'
                 /\ autoScrollPropRef'
                 /\ ~isPausedRef'
                 /\ \/ lastOp' = "timer"
                    \/ lastOp' = " " /\ isPausedRef]_vars

\* a wheel event during a drag has delivered on-pause although the drag
\* start had already switched the gate off and delivered on-pause
C34_Witness ==
    /\ lastOp = "wheel"
    /\ Delivered("pause")
    /\ isDraggingRef
    /\ pauseOnInteraction
    /\ ~autoScrollEnabledRef



\* C35: while a drag is in progress (isDragging true) no firing of the resume
\* timer delivers on-resume or switches the live gate on, also when wheel or
\* arrow-key events have arrived during the drag.
C35_NoTimerResumeWhileDragging ==
    [][(isDraggingRef /\ lastOp' = "timer")
          => /\ ~Delivered("resume")'
             /\ autoScrollEnabledRef' = autoScrollEnabledRef]_vars



\* C36: every drag move that is applied belongs to the channel that started
\* the drag in progress, so that its delta is measured against an anchor that
\* channel recorded during this drag: no touch move is applied against the
\* touch anchor during a drag started by the mouse, and no mouse move
\* against the mouse anchor during a drag started by a touch.
C36_MoveUsesOwnAnchor ==
    [][/\ lastOp' = "mousemove" => dragPointer = "mouse"
       /\ lastOp' = "touchmove" => dragPointer = "touch"]_vars



\* C37: while the instance is Suspended no frame runs and the committed
\* position changes only by a drag move or Home/End; a wheel or arrow event
\* handled in that state adds its impulse to the velocity exactly, and
\* nothing but an input event changes the velocity, so impulses accumulate
\* undecayed; the step that re-enters Active leaves position and velocity
\* alone; and the first frame after the re-entry runs the frame computation
\* with deltaTime 1 on the velocity it finds: it decays that velocity once
\* and applies what is left as momentum.
C37_SuspendedAccumulates ==
    /\ [][Suspended
             => /\ lastOp' # "frame"
                /\ positionRef' # positionRef
                       => lastOp' \in {"mousemove", "touchmove", "Home", "End"}
                /\ velocityRef' # velocityRef => lastOp' \in VelocityOps
                /\ lastOp' = "wheel"
                       => \E d \in WheelDeltas :
                              velocityRef' = velocityRef - wheelImpulse(d)
                /\ lastOp' = "ArrowUp"
                       => velocityRef' = velocityRef + ArrowImpulse
                /\ lastOp' = "ArrowDown"
                       => velocityRef' = velocityRef - ArrowImpulse
                /\ ~Suspended'
                       => /\ UNCHANGED <<positionRef, velocityRef>>
                          /\ mounted' => enteredActive']_vars
    /\ [][(lastOp' = "frame" /\ enteredActive)
             => LET r == FrameReference(positionRef, velocityRef, loopPointRef,
                                        autoScrollPropRef, autoScrollEnabledRef,
                                        isDraggingRef, direction,
                                        normalizedFriction(friction), 1)
                IN  /\ positionRef' = r.position
                    /\ velocityRef' = r.velocity]_vars

\* two wheel impulses were received while Suspended; the first frame after
\* the re-entry has found their sum, decayed it once and moved the position
\* by what was left
C37_Witness ==
    /\ lastOp = "frame"
    /\ carriedImpulses = -2
    /\ scenario = "suspension"
    /\ velocityRef = dampedVelocity(-2 * wheelImpulse(25),
                                    normalizedFriction(friction), 1)
    /\ Abs(velocityRef) > VelocityThreshold
    /\ lastScrollValue # <<>>
    /\ positionRef # 0

============================================================================
